---- MODULE Spec2Model ----
\* OrchestratAI orchestration engine: intent classification, routing, the
\* fallback executor and the worker strategies, modelled from
\* src/orchestratai_api/src.
\*
\* Conventions of the translation:
\*   - floats with two decimals (confidence) are counted in hundredths
\*     (0.85 is 85), costs in whole cost units (0.0 is 0);
\*   - a log title is the sequence of its words, so that the code's substring
\*     test `"Fallback" in log.title` is a search through the title;
\*   - uuid4 ids and timestamps of logs are fresh values nothing reads and
\*     are left out of the records.
EXTENDS Integers, Sequences, FiniteSets, TLC

\* ---------------------------------------------------------------- bounds

\* Longest chain handed to execute_with_fallback by the test harness.
MaxChain == 3

\* ------------------------------------------------------------ enums.py

AgentIds == {"orchestrator", "billing", "technical", "policy"}

\* The members AgentStatus(str, Enum) declares.
AgentStatusMembers == {"idle", "routing", "active"}

LogTypes == {"routing", "vector_search", "cache", "documents"}

LogStatuses == {"success", "warning", "error"}

\* ----------------------------------------------------------- schemas.py

RetrievalLog(type, title, data, status, chunks) ==
    [type |-> type, title |-> title, data |-> data, status |-> status,
     chunks |-> chunks]

ChatMetrics(tokensUsed, cost, latency, cache_status) ==
    [tokensUsed |-> tokensUsed, cost |-> cost, latency |-> latency,
     cache_status |-> cache_status]

ChatResponse(message, agent, confidence, logs, metrics, agent_status) ==
    [message |-> message, agent |-> agent, confidence |-> confidence,
     logs |-> logs, metrics |-> metrics, agent_status |-> agent_status]

\* Python's None, and an optional value that is present.
None == <<>>

Some(x) == <<x>>

\* `word in title` for a title kept as its words.
TitleContains(title, word) == \E i \in DOMAIN title : title[i] = word

\* ------------------------------------------- orchestrator.py: executor

AgentNames == {"hybrid", "rag", "cag", "direct"}

\* Messages are sequences of words or phrases.
ApologyMessage ==
    <<"I apologize, but I'm experiencing technical difficulties. Please try again later.">>

\* The names recorded in the fallback log (variant: the successful agent is
\* listed among the attempted ones).
fallback_attempted_with_self(attempted, agent_name) == Append(attempted, agent_name)

fallback_attempted(attempted, agent_name) == attempted

fallback_log(attempted, agent_name) ==
    RetrievalLog("routing",
                 <<"Fallback", "chain", "used:">> \o Append(attempted, agent_name),
                 [attempted_agents |-> fallback_attempted(attempted, agent_name),
                  successful_agent |-> agent_name,
                  fallback_reason |-> "previous_agents_failed"],
                 "success", None)

\* The try-branch of the loop body after `result = await agent_fn()`
\* returned: the fallback log is prepended when an earlier agent failed.
on_success(result, attempted, agent_name) ==
    IF attempted # <<>>
    THEN [result EXCEPT !.logs = <<fallback_log(attempted, agent_name)>> \o @]
    ELSE result

error_msg(attempted) == <<"All", "agents", "failed:">> \o attempted

error_log(attempted) ==
    RetrievalLog("routing", <<"All", "agents", "failed">>,
                 [attempted_agents |-> attempted, error |-> error_msg(attempted)],
                 "error", None)

\* (variant: the orchestrator slot reports an error status)
error_agent_status_flagged ==
    [a \in AgentIds |-> IF a = "orchestrator" THEN "error" ELSE "idle"]

error_agent_status == [a \in AgentIds |-> "idle"]

\* (variant: the error response keeps the confidence of a worker's answer)
error_response_confident(attempted) ==
    ChatResponse(ApologyMessage, "orchestrator", 70,
                 <<error_log(attempted)>>,
                 ChatMetrics(0, 0, 0, "none"),
                 error_agent_status)

error_response(attempted) ==
    ChatResponse(ApologyMessage, "orchestrator", 0,
                 <<error_log(attempted)>>,
                 ChatMetrics(0, 0, 0, "none"),
                 error_agent_status)

\* (variant: the text of the exception is kept in place of the name)
on_failure_keeping_text(attempted, agent_name, e) == Append(attempted, e)

\* except Exception as e: the exception is logged and the name of the
\* member recorded.
on_failure(attempted, agent_name, e) == Append(attempted, agent_name)

\* (variant: the handler catches every BaseException)
except_BaseException(exc_class) == TRUE

\* `except Exception as e`: asyncio.CancelledError derives from
\* BaseException, so the handler does not catch it.
except_Exception(exc_class) == exc_class # "CancelledError"

\* The for loop's step to the next chain member after a failure
\* (variant: the failed member is tried again).
next_member_retry(pos) == pos

next_member(pos) == pos + 1

\* ------------------------------------- orchestrator.py: classification

META_QUESTION == "META_QUESTION"
COMPLEX_QUESTION == "COMPLEX_QUESTION"
SIMPLE_CHAT == "SIMPLE_CHAT"
DOMAIN_QUESTION == "DOMAIN_QUESTION"
POLICY_QUESTION == "POLICY_QUESTION"
PRICING_QUESTION == "PRICING_QUESTION"

\* The classifier's reply is a sequence of tokens: a code fence, the
\* language tag "json", white space, prose, or one JSON value.
Fence == [kind |-> "fence"]
JsonTag == [kind |-> "tag"]
Ws == [kind |-> "ws"]
Prose == [kind |-> "text"]
JsonObject(dict) == [kind |-> "value", value |-> [type |-> "object", dict |-> dict]]
JsonNumber == [kind |-> "value", value |-> [type |-> "number", dict |-> <<>>]]

\* str.strip(): leading and trailing white space removed.
RECURSIVE lstrip(_)
lstrip(content) ==
    IF content # <<>> /\ Head(content) = Ws THEN lstrip(Tail(content)) ELSE content

RECURSIVE rstrip(_)
rstrip(content) ==
    IF content # <<>> /\ content[Len(content)] = Ws
    THEN rstrip(SubSeq(content, 1, Len(content) - 1))
    ELSE content

strip(content) == rstrip(lstrip(content))

startswith(content, token) == content # <<>> /\ Head(content) = token

\* content.split("```")[1] for a content that starts with a fence: what
\* lies between the first fence and the next one (or the end).
after_first_fence(content) ==
    LET rest == Tail(content)
        closing == {i \in DOMAIN rest : rest[i] = Fence}
    IN  IF closing = {} THEN rest
        ELSE SubSeq(rest, 1, (CHOOSE i \in closing : \A j \in closing : i <= j) - 1)

\* Lines 94-99: strip, then unwrap a leading markdown code block.
unwrap_code_block(raw) ==
    LET content == strip(raw) IN
    IF startswith(content, Fence)
    THEN LET inner == after_first_fence(content) IN
         IF startswith(inner, JsonTag) THEN strip(Tail(inner)) ELSE inner
    ELSE content

\* json.loads: white space around exactly one JSON value, else a
\* JSONDecodeError.
json_decodes(content) ==
    LET body == strip(content) IN Len(body) = 1 /\ body[1].kind = "value"

json_loads(content) == strip(content)[1].value

default_analysis ==
    [type |-> "object",
     dict |-> [intent |-> DOMAIN_QUESTION, confidence |-> 50,
               reasoning |-> "Failed to parse analysis, defaulting to domain question"]]

\* Lines 94-109: state["analysis"] for the reply `raw` of the provider.
parse_analysis(raw) ==
    LET content == unwrap_code_block(raw) IN
    IF json_decodes(content) THEN json_loads(content) ELSE default_analysis

\* ------------------------------------------ orchestrator.py: routing

Routes ==
    {"guide", "delegate_hybrid", "delegate_rag", "delegate_billing",
     "delegate_policy", "delegate_direct"}

\* A message is the sequence of its characters.
Contains(kw, text) ==
    \E i \in 0..(Len(text) - Len(kw)) : SubSeq(text, i + 1, i + Len(kw)) = kw

UpperToLower == [H |-> "h", E |-> "e", W |-> "w"]

\* str.lower()
lower(text) ==
    [i \in DOMAIN text |->
        IF text[i] \in DOMAIN UpperToLower THEN UpperToLower[text[i]] ELSE text[i]]

ComplexKeywords ==
    {<<"e", "x", "p", "l", "a", "i", "n">>,
     <<"c", "o", "m", "p", "a", "r", "e">>,
     <<"a", "n", "a", "l", "y", "z", "e">>,
     <<"h", "o", "w", " ", "d", "o", "e", "s">>,
     <<"d", "i", "f", "f", "e", "r", "e", "n", "c", "e", " ",
       "b", "e", "t", "w", "e", "e", "n">>}

SimpleChatKeywords ==
    {<<"h", "e", "l", "l", "o">>,
     <<"h", "i">>,
     <<"h", "e", "y">>,
     <<"t", "h", "a", "n", "k", "s">>,
     <<"t", "h", "a", "n", "k", " ", "y", "o", "u">>,
     <<"b", "y", "e">>,
     <<"g", "o", "o", "d", "b", "y", "e">>}

ComplexLength == 100

is_complex(message) ==
    Len(message) > ComplexLength
        \/ \E kw \in ComplexKeywords : Contains(kw, lower(message))

is_simple_chat(message) ==
    \E kw \in SimpleChatKeywords : Contains(kw, lower(message))

\* state["analysis"].get("intent", DOMAIN_QUESTION)
intent_of(analysis) ==
    IF "intent" \in DOMAIN analysis.dict THEN analysis.dict.intent ELSE DOMAIN_QUESTION

\* (variant: the simple-chat test is made before the complexity test)
decide_route_chat_first(intent, message) ==
    IF intent = META_QUESTION THEN "guide"
    ELSE IF intent = SIMPLE_CHAT \/ is_simple_chat(message) THEN "delegate_direct"
    ELSE IF intent = COMPLEX_QUESTION
              \/ (intent = DOMAIN_QUESTION /\ is_complex(message))
         THEN "delegate_hybrid"
    ELSE IF intent = PRICING_QUESTION THEN "delegate_billing"
    ELSE IF intent = POLICY_QUESTION THEN "delegate_policy"
    ELSE IF intent = DOMAIN_QUESTION THEN "delegate_rag"
    ELSE "delegate_direct"

\* (variant: the branch returns its route without storing it)
route_not_written(state_route, chosen) == state_route

\* state["route"] = <the branch's route>, ahead of each return.
route_written(state_route, chosen) == chosen

\* Lines 163-184: the if/elif chain.
decide_route(intent, message) ==
    IF intent = META_QUESTION THEN "guide"
    ELSE IF intent = COMPLEX_QUESTION
              \/ (intent = DOMAIN_QUESTION /\ is_complex(message))
         THEN "delegate_hybrid"
    ELSE IF intent = SIMPLE_CHAT \/ is_simple_chat(message) THEN "delegate_direct"
    ELSE IF intent = PRICING_QUESTION THEN "delegate_billing"
    ELSE IF intent = POLICY_QUESTION THEN "delegate_policy"
    ELSE IF intent = DOMAIN_QUESTION THEN "delegate_rag"
    ELSE "delegate_direct"

\* ------------------------------------------------------ redis_cache.py

\* Embeddings are integer vectors of two components.
Dot(a, b) == a[1] * b[1] + a[2] * b[2]

\* cosine_similarity, kept exact: the score is dot / sqrt(norm2).
cosine_similarity(vec1, vec2) ==
    [dot |-> Dot(vec1, vec2), norm2 |-> Dot(vec1, vec1) * Dot(vec2, vec2)]

\* score >= threshold, the threshold in hundredths.
score_at_least(score, threshold) ==
    /\ score.norm2 > 0
    /\ score.dot >= 0
    /\ score.dot * score.dot * 10000 >= threshold * threshold * score.norm2

ZeroScore == [dot |-> 0, norm2 |-> 1]

\* (variant: the most similar entry at the threshold is returned)
cache_get_best(store, embedding, threshold) ==
    LET Sim(i) == cosine_similarity(store[i].embedding, embedding)
        matches == {i \in DOMAIN store : score_at_least(Sim(i), threshold)}
        \* a/sqrt(m) >= b/sqrt(n) for non-negative dots
        AtLeast(x, y) == x.dot * x.dot * y.norm2 >= y.dot * y.dot * x.norm2
    IN  IF matches = {}
        THEN [payload |-> None, similarity |-> ZeroScore]
        ELSE LET best == CHOOSE i \in matches :
                             \A j \in matches :
                                 AtLeast(Sim(i), Sim(j))
                                     /\ (AtLeast(Sim(j), Sim(i)) => i <= j)
             IN  [payload |-> Some(store[best].payload), similarity |-> Sim(best)]

\* RedisSemanticCache.get over the list `store` (newest first).
cache_get(store, embedding, threshold) ==
    LET matches == {i \in DOMAIN store :
                       score_at_least(cosine_similarity(store[i].embedding, embedding),
                                      threshold)}
    IN  IF matches = {}
        THEN [payload |-> None, similarity |-> ZeroScore]
        ELSE LET first == CHOOSE i \in matches : \A j \in matches : i <= j
             IN  [payload |-> Some(store[first].payload),
                  similarity |-> cosine_similarity(store[first].embedding, embedding)]

\* (variant: a hit moves its entry to the head of the list, as a cache
\* ordered by recency of access would)
store_after_get_touching(store, embedding, threshold) ==
    LET matches == {i \in DOMAIN store :
                       score_at_least(cosine_similarity(store[i].embedding, embedding),
                                      threshold)}
    IN  IF matches = {} THEN store
        ELSE LET first == CHOOSE i \in matches : \A j \in matches : i <= j
             IN  <<store[first]>> \o SubSeq(store, 1, first - 1)
                     \o SubSeq(store, first + 1, Len(store))

\* The list after get: LRANGE key 0 -1 is the only command get issues.
store_after_get(store, embedding, threshold) == store

\* The list is trimmed to this many items (the code keeps 1000).
MaxItems == 2

\* The commands of set: LPUSH key entry, LTRIM key 0 MaxItems-1.
lpush(store, entry) == <<entry>> \o store

ltrim(store) == SubSeq(store, 1, IF Len(store) < MaxItems THEN Len(store) ELSE MaxItems)

\* (variant: the entry is pushed at the tail and the list trimmed)
cache_set_at_tail(store, embedding, payload) ==
    ltrim(Append(store, [embedding |-> embedding, payload |-> payload]))

\* (variant: the list is never trimmed)
cache_set_untrimmed(store, embedding, payload) ==
    lpush(store, [embedding |-> embedding, payload |-> payload])

\* ttl_seconds of the constructor, in ticks of the model's clock.
TtlSeconds == 2

\* (variant: EXPIRE that leaves a running time to live as it is)
expire_unless_set(ttl_left) == IF ttl_left = 0 THEN TtlSeconds ELSE ttl_left

\* EXPIRE "cag_cache" self._ttl on the existing key: the time to live of the
\* whole list starts anew.
expire(ttl_left) == TtlSeconds

\* RedisSemanticCache.set when the command `fails` raises: the commands
\* before it have taken effect. (A list left untrimmed is let to exceed
\* MaxItems by one entry only; beyond that the push itself is the failure.)
cache_set_failing(store, embedding, payload, fails) ==
    LET entry == [embedding |-> embedding, payload |-> payload] IN
    CASE fails = "set" -> store
      [] fails = "ltrim" -> IF Len(store) > MaxItems THEN store ELSE lpush(store, entry)
      [] fails = "expire" -> ltrim(lpush(store, entry))

\* RedisSemanticCache.set: lpush, then ltrim to the newest MaxItems.
cache_set(store, embedding, payload) ==
    ltrim(lpush(store, [embedding |-> embedding, payload |-> payload]))

\* ------------------------------------------------------ worker agents

\* Attribute access AgentStatus.<NAME>: an AttributeError unless the enum
\* declares the member.
HasStatus(value) == value \in AgentStatusMembers

\* `if cached:` for the optional payload cache.get returned: None and the
\* empty dict are false.
Truthy(optional) == optional # None /\ DOMAIN optional[1] # {}

\* What a run of a worker comes to: the exception it raised ("none" when it
\* returned), the response it returned, the cache list it leaves, and the
\* ChatMetrics it had built, and the awaited calls it made on its
\* collaborators (embed, get, search, complete, set).
Raised(exc, store, metrics) ==
    [exc |-> exc, resp |-> None, store |-> store, metrics |-> metrics, logs |-> <<>>,
     calls |-> <<>>, got |-> None]

\* A run that raised after it had assembled the logs of its response.
RaisedWithLogs(exc, store, metrics, logs) ==
    [exc |-> exc, resp |-> None, store |-> store, metrics |-> metrics, logs |-> logs,
     calls |-> <<>>, got |-> None]

Returned(resp, store) ==
    [exc |-> "none", resp |-> Some(resp), store |-> store, metrics |-> Some(resp.metrics),
     logs |-> resp.logs, calls |-> <<>>, got |-> None]

\* The run `out` made the collaborator calls `calls`, in that order, the
\* last of them being the one that raised if one did.
Calling(calls, out) == [out EXCEPT !.calls = calls]

\* The cache lookup of the run `out` returned `payload` (None: no entry).
Got(payload, out) == [out EXCEPT !.got = payload]

\* What the collaborators of one run do: the embedding call, the cache
\* commands, the vector search and the completion call.
Embeddings == {<<1, 0>>, <<0, 1>>, <<3, 1>>}

DocA == [page_content |-> "A", metadata |-> [source |-> "a.md", page |-> 1]]

SearchResults == {<<>>, <<[doc |-> DocA, score |-> 40]>>}

LlmResults ==
    {[content |-> <<"answer", c>>, tokens_input |-> 10, tokens_output |-> 5, cost |-> 2] :
        c \in {"A", "B"}}

\* `fails` names the first collaborator call of the run that raises; "set",
\* "ltrim" and "expire" are the three commands of cache.set, and "get_late"
\* is a cache lookup that raises only after a task started beside it has
\* finished ("get": before).
Envs ==
    [fails : {"none", "embed", "get", "get_late", "search", "llm", "set", "ltrim",
              "expire"},
     embedding : Embeddings, results : SearchResults, llm : LlmResults, latency : {3}]

\* direct_agent.py -------------------------------------------------------

direct_agent_status ==
    [a \in AgentIds |-> IF a = "orchestrator" THEN "complete" ELSE "idle"]

DirectRun(store, env) ==
    Calling(<<"complete">>,
    IF env.fails = "llm" THEN Raised("ProviderError", store, None)
    ELSE
    LET result == env.llm
        routing_log ==
            RetrievalLog("routing",
                         <<"Direct", "conversational", "response", "(no", "retrieval)">>,
                         [agent |-> "direct", mode |-> "conversational",
                          retrieval |-> FALSE],
                         "success", None)
        chat_metrics ==
            ChatMetrics(result.tokens_input + result.tokens_output, result.cost,
                        env.latency, "none")
    IN  IF ~HasStatus("complete")
        THEN RaisedWithLogs("AttributeError", store, Some(chat_metrics),
                            <<routing_log>>)
        ELSE Returned(ChatResponse(result.content, "orchestrator", 70,
                                   <<routing_log>>, chat_metrics, direct_agent_status),
                      store))

\* rag_agent.py ----------------------------------------------------------

\* max(0.0, 1.0 - score / 2.0), distance and similarity in hundredths.
similarity_of(score) == IF 100 - score \div 2 < 0 THEN 0 ELSE 100 - score \div 2

document_source(doc) ==
    IF "source" \in DOMAIN doc.metadata THEN doc.metadata.source ELSE "unknown"

chunks_of(results) ==
    [i \in DOMAIN results |->
        [id |-> i - 1, content |-> results[i].doc.page_content,
         similarity |-> similarity_of(results[i].score),
         source |-> document_source(results[i].doc),
         metadata |-> results[i].doc.metadata]]

technical_agent_status ==
    [a \in AgentIds |-> IF a \in {"orchestrator", "technical"} THEN "complete" ELSE "idle"]

RAGRun(store, env) ==
    IF env.fails = "search" THEN Calling(<<"search">>, Raised("VectorStoreError", store, None))
    ELSE Calling(<<"search", "complete">>,
    IF env.fails = "llm" THEN Raised("ProviderError", store, None)
    ELSE
    LET result == env.llm
        chunks == chunks_of(env.results)
        logs == <<RetrievalLog("vector_search",
                               <<"Retrieved", "documents", "from", "knowledge", "base">>,
                               [collection |-> "knowledge_base_v1",
                                chunks_retrieved |-> Len(chunks)],
                               "success", chunks)>>
        chat_metrics ==
            ChatMetrics(result.tokens_input + result.tokens_output, result.cost,
                        env.latency, "none")
    IN  IF ~HasStatus("complete")
        THEN RaisedWithLogs("AttributeError", store, Some(chat_metrics),
                            logs)
        ELSE Returned(ChatResponse(result.content, "technical", 85, logs,
                                   chat_metrics, technical_agent_status),
                      store))

\* cag_agent.py ----------------------------------------------------------

\* cache.get(embedding=query_embedding, threshold=0.85)
CacheThreshold == 85

cag_agent_id(intent) == IF intent = POLICY_QUESTION THEN "policy" ELSE "billing"

cag_agent_status(intent) ==
    [a \in AgentIds |->
        IF a = "orchestrator" \/ a = cag_agent_id(intent) THEN "complete" ELSE "idle"]

build_cache_hit_response(cached_payload, similarity, latency, intent, store) ==
    LET cache_log ==
            RetrievalLog("cache", <<"Cache", "hit">>,
                         [operation |-> "hit", similarity_score |-> similarity,
                          saved_cost |-> IF "metrics" \in DOMAIN cached_payload
                                         THEN cached_payload.metrics.cost ELSE 0],
                         "success", None)
        chat_metrics == ChatMetrics(0, 0, latency, "hit")
    IN  IF ~HasStatus("complete")
        THEN RaisedWithLogs("AttributeError", store, Some(chat_metrics),
                            <<cache_log>>)
        ELSE IF "message" \notin DOMAIN cached_payload
        THEN Raised("KeyError", store, Some(chat_metrics))
        ELSE Returned(ChatResponse(cached_payload.message, cag_agent_id(intent), 90,
                                   <<cache_log>>, chat_metrics, cag_agent_status(intent)),
                      store)

\* (variant: the cache log is listed before the vector-search log)
cache_miss_logs_cache_first(vector_log, cache_log) == <<cache_log, vector_log>>

\* logs=[vector_log, cache_log]
cache_miss_logs(vector_log, cache_log) == <<vector_log, cache_log>>

build_cache_miss_response(result, latency, chunks, intent, store) ==
    LET vector_log ==
            RetrievalLog("vector_search",
                         <<"Retrieved", "documents", "from", "knowledge", "base">>,
                         [collection_name |-> "knowledge_base_v1", chunks |-> Len(chunks)],
                         "success", chunks)
        cache_log ==
            RetrievalLog("cache", <<"Cache", "miss", "-", "generated", "new", "response">>,
                         [operation |-> "miss", similarity_score |-> ZeroScore,
                          saved_cost |-> 0],
                         "success", None)
        chat_metrics ==
            ChatMetrics(result.tokens_input + result.tokens_output, result.cost,
                        latency, "miss")
    IN  IF ~HasStatus("complete")
        THEN RaisedWithLogs("AttributeError", store, Some(chat_metrics),
                            cache_miss_logs(vector_log, cache_log))
        ELSE Returned(ChatResponse(result.content, cag_agent_id(intent), 85,
                                   cache_miss_logs(vector_log, cache_log), chat_metrics,
                                   cag_agent_status(intent)),
                      store)

cache_payload(result) ==
    [message |-> result.content,
     metrics |-> [tokens_input |-> result.tokens_input,
                  tokens_output |-> result.tokens_output, cost |-> result.cost]]

CAGRun(store, env, intent) ==
    IF env.fails = "embed"
    THEN Calling(<<"embed">>, Raised("EmbeddingError", store, None))
    ELSE IF env.fails \in {"get", "get_late"}
    THEN Calling(<<"embed", "get">>, Raised("RedisError", store, None))
    ELSE
    LET got == cache_get(store, env.embedding, CacheThreshold) IN
    Got(got.payload,
    IF Truthy(got.payload)
    THEN Calling(<<"embed", "get">>,
                 build_cache_hit_response(got.payload[1], got.similarity, env.latency,
                                          intent, store))
    ELSE IF env.fails = "search"
    THEN Calling(<<"embed", "get", "search">>, Raised("VectorStoreError", store, None))
    ELSE IF env.fails = "llm"
    THEN Calling(<<"embed", "get", "search", "complete">>,
                 Raised("ProviderError", store, None))
    ELSE Calling(<<"embed", "get", "search", "complete", "set">>,
    IF env.fails \in {"set", "ltrim", "expire"}
    THEN Raised("RedisError", cache_set_failing(store, env.embedding, cache_payload(env.llm),
                                                env.fails), None)
    ELSE build_cache_miss_response(env.llm, env.latency, chunks_of(env.results), intent,
                                   cache_set(store, env.embedding, cache_payload(env.llm)))))

\* hybrid_agent.py -------------------------------------------------------

\* Step 3: the chunks of the RAG response's vector-search logs.
RECURSIVE rag_chunks_of(_)
rag_chunks_of(logs) ==
    IF logs = <<>> THEN <<>>
    ELSE (IF Head(logs).type = "vector_search" THEN Head(logs).chunks ELSE <<>>)
             \o rag_chunks_of(Tail(logs))

IsVectorSearch(log) == log.type = "vector_search"

\* total_cost = rag_cost + result.cost
hybrid_cost(rag_cost, result_cost) == rag_cost + result_cost

\* asyncio.gather(rag_task, cache_task): the await raises as soon as one of
\* the two tasks has raised, with the exception of the task that raised
\* first, and returns once both have returned.
gather_raises(rag_exc, fails) == rag_exc # "none" \/ fails \in {"get", "get_late"}

gather_exception(rag_exc, fails) ==
    IF fails = "get" \/ rag_exc = "none" THEN "RedisError" ELSE rag_exc

\* (variant: Hybrid stores its answer as CAG does)
hybrid_store_caching(store, embedding, result) ==
    cache_set(store, embedding, cache_payload(result))

\* What run() leaves in the cache after its completion call: the only
\* cache method run() calls is get, so the store is the one it found.
hybrid_store(store, embedding, result) == store

\* `rag` is what the RAG sub-call came to (the rag_agent the constructor
\* was given).
HybridRun(store, env, rag) ==
    IF env.fails = "embed" THEN Calling(<<"embed">>, Raised("EmbeddingError", store, None))
    ELSE IF gather_raises(rag.exc, env.fails)
    THEN Calling(<<"embed", "rag.run", "get">>,
                 Raised(gather_exception(rag.exc, env.fails), store, None))
    ELSE Calling(<<"embed", "rag.run", "get", "complete">>,
    LET rag_response == rag.resp[1]
        got == cache_get(store, env.embedding, CacheThreshold)
        cached == Truthy(got.payload)
        rag_chunks == rag_chunks_of(rag_response.logs)
        cache_chunks ==
            IF cached
            THEN <<[id |-> Len(rag_chunks),
                    content |-> IF "message" \in DOMAIN got.payload[1]
                                THEN got.payload[1].message ELSE <<>>,
                    similarity |-> got.similarity, source |-> "cache",
                    metadata |-> [source |-> "semantic_cache"]]>>
            ELSE <<>>
    IN
    Got(got.payload,
    IF env.fails = "llm" THEN Raised("ProviderError", store, None)
    ELSE
    LET result == env.llm
        total_tokens == result.tokens_input + result.tokens_output
        total_cost == hybrid_cost(rag_response.metrics.cost, result.cost)
        cache_log ==
            IF cached
            THEN RetrievalLog("cache", <<"Cache", "hit">>,
                              [operation |-> "hit", similarity_score |-> got.similarity],
                              "success", cache_chunks)
            ELSE RetrievalLog("cache", <<"Cache", "miss">>,
                              [operation |-> "miss", similarity_score |-> ZeroScore],
                              "success", None)
        logs == SelectSeq(rag_response.logs, IsVectorSearch) \o <<cache_log>>
        chat_metrics ==
            ChatMetrics(total_tokens, total_cost, env.latency,
                        IF cached THEN "hit" ELSE "miss")
        kept == hybrid_store(store, env.embedding, result)
    IN  IF ~HasStatus("complete")
        THEN RaisedWithLogs("AttributeError", kept, Some(chat_metrics),
                            logs)
        ELSE Returned(ChatResponse(result.content, "technical", 90, logs,
                                   chat_metrics, technical_agent_status),
                      kept)))

\* ------------------------------------- orchestrator.py: delegate nodes

dict_get(dict, key, default) == IF key \in DOMAIN dict THEN dict[key] ELSE default

name_map ==
    [hybrid |-> "Hybrid", rag |-> "RAG", billing |-> "Billing (CAG)",
     policy |-> "Policy (CAG)", direct |-> "Direct", guide |-> "Guide"]

\* (variant: the log is filed under the type of the retrieval it precedes)
routing_log_type_of_retrieval == "vector_search"

routing_log_type == "routing"

routing_log(analysis, target_agent) ==
    RetrievalLog(routing_log_type,
                 <<"Orchestrator", "routed", "to", name_map[target_agent], "agent">>,
                 [intent |-> dict_get(analysis.dict, "intent", "unknown"),
                  confidence |-> dict_get(analysis.dict, "confidence", 0),
                  target_agent |-> target_agent,
                  reasoning |-> dict_get(analysis.dict, "reasoning", "")],
                 "success", None)

\* _add_routing_log: the routing log is prepended unless the response
\* already carries a fallback log.
add_routing_log(response, analysis, target_agent) ==
    IF \E i \in DOMAIN response.logs :
           response.logs[i].type = "routing"
               /\ TitleContains(response.logs[i].title, "Fallback")
    THEN response
    ELSE [response EXCEPT !.logs = <<routing_log(analysis, target_agent)>> \o @]

\* The fallback_chain each delegate node builds.
fallback_chain(route) ==
    CASE route = "delegate_hybrid" -> <<"hybrid", "rag", "cag", "direct">>
      [] route = "delegate_rag" -> <<"rag", "cag", "direct">>
      [] route = "delegate_billing" -> <<"cag", "direct">>
      [] route = "delegate_policy" -> <<"cag", "direct">>

\* The target_agent each delegate node hands to _add_routing_log.
target_agent_of(route) ==
    CASE route = "delegate_hybrid" -> "hybrid"
      [] route = "delegate_rag" -> "rag"
      [] route = "delegate_billing" -> "billing"
      [] route = "delegate_policy" -> "policy"
      [] route = "delegate_direct" -> "direct"

\* The intent keyword the node's try_cag passes to CAGAgent.run.
cag_intent(route) ==
    CASE route = "delegate_billing" -> PRICING_QUESTION
      [] route = "delegate_policy" -> POLICY_QUESTION
      [] OTHER -> ""

\* The collaborators of the RAG agent inside Hybrid: its vector search and
\* its completion call (it makes no embedding and no cache call).
RagEnvs(env) ==
    {e \in Envs : e.fails \in {"none", "search", "llm"} /\ e.embedding = env.embedding}

\* try_hybrid, try_rag, try_cag, try_direct of the node for `route`; the
\* hybrid agent is given a RAG agent of its own, with its own calls.
try_agent(agent_name, route, store, env, rag_env) ==
    CASE agent_name = "hybrid" -> HybridRun(store, env, RAGRun(store, rag_env))
      [] agent_name = "rag" -> RAGRun(store, env)
      [] agent_name = "cag" -> CAGRun(store, env, cag_intent(route))
      [] agent_name = "direct" -> DirectRun(store, env)

\* ------------------------------------------------------------- state

\* No cache operation has been made yet.
NoCacheOp == [name |-> "none"]

\* Requests that use the cache at the same time.
Clients == {1, 2}

IdleClient == [at |-> "idle"]

HybridIdle == [at |-> "idle"]

StreamIdle == [at |-> "idle"]

VARIABLES
    pc,             \* position of the running call
    preferred,      \* execute_with_fallback: the chain, as its agent names
    pos,            \* execute_with_fallback: index of the loop's current member
    attempted,      \* execute_with_fallback: names of the members that raised
    ret,            \* the ChatResponse execute_with_fallback returned
    invoked,        \* history: chain positions whose callable was awaited
    outcomes,       \* history: per invocation, "ok" or "raise"
    excs,           \* history: what the callables of the tests raised
    produced,       \* history: the response the successful callable returned
    message,        \* state["messages"][-1]["content"], as its characters
    session_id,     \* state["session_id"]
    reply,          \* history: the classifier's reply to this request
    analysis,       \* state["analysis"]
    route,          \* state["route"]
    result,         \* state["result"]: what process_chat returns
    raised,         \* the exception that left process_chat, or "none"
    cache_store,    \* the Redis list "cag_cache", newest first
    worker_metrics, \* history: the ChatMetrics the last worker run built
    worker_logs,    \* history: the logs the last worker run assembled
    worker_calls,   \* history: the collaborator calls the last worker run made
    worker_got,     \* history: the payload its cache lookup returned, if any
    ran,            \* history: the worker the harness ran last
    cache_op,       \* history: the last cache operation and what it returned
    inserted,       \* history: entries pushed since the key last expired
    key_ttl,        \* seconds the key "cag_cache" has left to live (0: none set)
    clients,        \* concurrent cache clients, each inside get or set
    hyb,            \* HybridAgent.run, step by step
    stream,         \* process_chat_stream, step by step
    sess            \* chat.py: stream_sessions, the clock and the open connections

execVars == <<preferred, pos, attempted, ret, invoked, outcomes, excs, produced>>

reqVars == <<message, session_id, reply, analysis, route, result, raised>>

workerVars == <<cache_store, worker_metrics, worker_logs, worker_calls, worker_got, ran>>

auxVars == <<cache_op, inserted, key_ttl, clients, hyb, stream, sess>>

vars == <<pc, execVars, reqVars, workerVars, auxVars>>

\* process_chat's initial state["analysis"] = {}.
empty_analysis == [type |-> "object", dict |-> <<>>]

\* No stream session stored, no connection open, the clock at 0.
SessIdle ==
    [sessions |-> <<>>, now |-> 0,
     conns |-> <<[at |-> "none"], [at |-> "none"]>>]

Init ==
    /\ pc = "idle"
    /\ preferred = <<>>
    /\ pos = 1
    /\ attempted = <<>>
    /\ ret = None
    /\ invoked = <<>>
    /\ outcomes = <<>>
    /\ excs = <<>>
    /\ produced = None
    /\ message = <<>>
    /\ session_id = ""
    /\ reply = <<>>
    /\ analysis = empty_analysis
    /\ route = ""
    /\ result = None
    /\ raised = "none"
    /\ cache_store = <<>>
    /\ worker_metrics = None
    /\ worker_logs = <<>>
    /\ worker_calls = <<>>
    /\ worker_got = None
    /\ ran = ""
    /\ cache_op = NoCacheOp
    /\ inserted = <<>>
    /\ key_ttl = 0
    /\ clients = [c \in Clients |-> IdleClient]
    /\ hyb = HybridIdle
    /\ stream = StreamIdle
    /\ sess = SessIdle

\* ------------------------------------ harness: callables of the tests

\* Chains of at most MaxChain members, names repeated or not.
Chains == UNION {[1..n -> AgentNames] : n \in 0..MaxChain}

\* What the callables of the tests raise: str(e) of the exception.
ExceptionTexts == {"RAG service unavailable", "Connection refused: redis:6379"}

\* Logs a callable's response may carry when it returns.
StubLogs ==
    {<<>>,
     <<RetrievalLog("vector_search", <<"Retrieved", "documents">>,
                    [chunks_retrieved |-> 0], "success", <<>>)>>}

\* The response of the callable at chain position k: its message names the
\* position, as the tests' "Success from ..." messages name the agent.
StubResponse(k, logs) ==
    ChatResponse(<<"Success", "from", ToString(k)>>, "billing", 90, logs,
                 ChatMetrics(100, 1, 500, "none"),
                 [a \in AgentIds |-> "idle"])

\* A test calls execute_with_fallback(fallback_chain, mock_state).
CallExecutor ==
    /\ pc = "idle"
    /\ \E chain \in Chains : preferred' = chain
    /\ pc' = "exec"
    /\ pos' = 1
    /\ attempted' = <<>>
    /\ ret' = None
    /\ invoked' = <<>>
    /\ outcomes' = <<>>
    /\ excs' = <<>>
    /\ produced' = None
    /\ UNCHANGED <<reqVars, workerVars>>
    /\ UNCHANGED auxVars

\* One iteration of `for agent_name, agent_fn in preferred` whose callable
\* returns a ChatResponse: the function returns it.
AttemptSucceeds ==
    /\ pc = "exec"
    /\ pos <= Len(preferred)
    /\ \E logs \in StubLogs :
         /\ produced' = Some(StubResponse(pos, logs))
         /\ ret' = Some(on_success(StubResponse(pos, logs), attempted, preferred[pos]))
    /\ invoked' = Append(invoked, pos)
    /\ outcomes' = Append(outcomes, "ok")
    /\ excs' = excs
    /\ pc' = "returned"
    /\ UNCHANGED <<preferred, pos, attempted, reqVars, workerVars>>
    /\ UNCHANGED auxVars

\* One iteration whose callable raises an Exception: the name is recorded
\* and the loop continues.
AttemptRaises ==
    /\ pc = "exec"
    /\ pos <= Len(preferred)
    /\ \E e \in ExceptionTexts :
         /\ attempted' = on_failure(attempted, preferred[pos], e)
         /\ excs' = Append(excs, e)
    /\ pos' = next_member(pos)
    /\ invoked' = Append(invoked, pos)
    /\ outcomes' = Append(outcomes, "raise")
    /\ UNCHANGED <<pc, preferred, ret, produced, reqVars, workerVars>>
    /\ UNCHANGED auxVars

\* One iteration whose callable is cancelled while it is awaited: the
\* CancelledError raised at `await agent_fn()` passes the handler and
\* leaves the function.
AttemptCancelled ==
    /\ pc = "exec"
    /\ pos <= Len(preferred)
    /\ invoked' = Append(invoked, pos)
    /\ outcomes' = Append(outcomes, "cancel")
    /\ IF except_Exception("CancelledError")
       THEN /\ attempted' = on_failure(attempted, preferred[pos], "")
            /\ excs' = Append(excs, "")
            /\ pos' = next_member(pos)
            /\ pc' = pc
       ELSE /\ pc' = "cancelled"
            /\ UNCHANGED <<attempted, excs, pos>>
    /\ UNCHANGED <<preferred, ret, produced, reqVars, workerVars>>
    /\ UNCHANGED auxVars

\* The loop ran out of members: the error response is built and returned.
AllFailed ==
    /\ pc = "exec"
    /\ pos > Len(preferred)
    /\ ret' = Some(error_response(attempted))
    /\ pc' = "returned"
    /\ UNCHANGED <<preferred, pos, attempted, invoked, outcomes, excs, produced, reqVars,
                   workerVars>>
    /\ UNCHANGED auxVars

\* The test is over; the next one starts from a fresh call.
TestDone ==
    /\ pc \in {"returned", "cancelled"}
    /\ pc' = "idle"
    /\ UNCHANGED <<execVars, reqVars, workerVars>>
    /\ UNCHANGED auxVars

\* The last lines of a delegate node whose workers are the callables of
\* the test: the chain was the node's, and _add_routing_log is applied to
\* what execute_with_fallback returned.
NodeAddsRoutingLog ==
    /\ pc = "returned"
    /\ \E r \in {"delegate_hybrid", "delegate_rag", "delegate_billing", "delegate_policy"},
          a \in {[type |-> "object",
                  dict |-> [intent |-> i, confidence |-> 80, reasoning |-> "because"]] :
                     i \in {DOMAIN_QUESTION, PRICING_QUESTION}} :
         /\ preferred = fallback_chain(r)
         /\ route' = r
         /\ analysis' = a
         /\ result' = Some(add_routing_log(ret[1], a, target_agent_of(r)))
    /\ pc' = "logged"
    /\ UNCHANGED <<execVars, message, session_id, reply, raised, workerVars>>
    /\ UNCHANGED auxVars

\* The node has returned; the next test starts from a fresh call.
NodeDone ==
    /\ pc = "logged"
    /\ pc' = "idle"
    /\ route' = ""
    /\ analysis' = empty_analysis
    /\ result' = None
    /\ UNCHANGED <<execVars, message, session_id, reply, raised, workerVars>>
    /\ UNCHANGED auxVars

ExecNext ==
    \/ CallExecutor
    \/ AttemptSucceeds
    \/ AttemptRaises
    \/ AttemptCancelled
    \/ AllFailed
    \/ TestDone
    \/ NodeAddsRoutingLog
    \/ NodeDone

\* execute_with_fallback driven over every chain and every failure pattern.
ExecSpec == Init /\ [][ExecNext]_vars

\* --------------------------------------- agent_service.py: process_chat

\* "x" * n
RECURSIVE Filler(_)
Filler(n) == IF n = 0 THEN <<>> ELSE <<"x">> \o Filler(n - 1)

\* The user messages of the requests.
Messages ==
    {<<"H", "e", "l", "l", "o">>,
     <<"t", "h", "i", "s">>,
     <<"E", "x", "p", "l", "a", "i", "n">>,
     <<"r", "e", "f", "u", "n", "d">>,
     Filler(ComplexLength - 4) \o <<" ">> \o <<"f", "e", "e">>,
     Filler(ComplexLength - 3) \o <<" ">> \o <<"f", "e", "e">>}

Intents ==
    {META_QUESTION, COMPLEX_QUESTION, SIMPLE_CHAT, DOMAIN_QUESTION, POLICY_QUESTION,
     PRICING_QUESTION}

FullAnalysis(intent) ==
    JsonObject([intent |-> intent, confidence |-> 80, reasoning |-> "because"])

\* What the classifier's completion call may answer.
ClassifierReplies ==
    {<<FullAnalysis(i)>> : i \in Intents \cup {"SOMETHING_ELSE"}}
    \cup {<<Fence, JsonTag, Ws, FullAnalysis(i), Ws, Fence>> :
              i \in {META_QUESTION, PRICING_QUESTION}}
    \cup {<<Ws, Fence, Ws, FullAnalysis(POLICY_QUESTION), Ws, Fence, Ws, Prose>>,
          <<Prose, Ws, Fence, JsonTag, Ws, FullAnalysis(META_QUESTION), Ws, Fence>>,
          <<Fence, JsonTag, Ws, Prose, Ws, Fence>>,
          <<Prose>>,
          <<>>,
          <<JsonNumber>>,
          <<Fence, JsonTag, Ws, JsonNumber, Ws, Fence>>,
          <<JsonObject([confidence |-> 80, reasoning |-> "because"])>>,
          <<JsonObject([intent |-> META_QUESTION])>>}

\* AgentService.process_chat(request): the initial state is built and the
\* graph is entered at the analyse node.
\* ChatRequest.session_id of the requests served.
SessionIds == {"test-session-123"}

ProcessChat ==
    /\ pc = "idle"
    /\ \E m \in Messages : message' = m
    /\ \E sid \in SessionIds : session_id' = sid
    /\ pc' = "analyse"
    /\ reply' = <<>>
    /\ analysis' = empty_analysis
    /\ route' = ""
    /\ result' = None
    /\ raised' = "none"
    /\ preferred' = <<>>
    /\ pos' = 1
    /\ attempted' = <<>>
    /\ ret' = None
    /\ invoked' = <<>>
    /\ outcomes' = <<>>
    /\ excs' = <<>>
    /\ produced' = None
    /\ worker_metrics' = None
    /\ worker_logs' = <<>>
    /\ worker_calls' = <<>>
    /\ worker_got' = None
    /\ UNCHANGED <<cache_store, ran>>
    /\ UNCHANGED auxVars

\* analyse_query whose completion call raises: the exception leaves the graph.
AnalyseQueryProviderFails ==
    /\ pc = "analyse"
    /\ raised' = "ProviderError"
    /\ pc' = "raised"
    /\ UNCHANGED <<execVars, message, session_id, reply, analysis, route, result, workerVars>>
    /\ UNCHANGED auxVars

\* analyse_query whose completion call answers.
AnalyseQuery ==
    /\ pc = "analyse"
    /\ \E r \in ClassifierReplies :
         /\ reply' = r
         /\ analysis' = parse_analysis(r)
    /\ pc' = "route"
    /\ UNCHANGED <<execVars, message, session_id, route, result, raised, workerVars>>
    /\ UNCHANGED auxVars

\* The conditional edge decide_route: state["analysis"].get needs a dict.
DecideRoute ==
    /\ pc = "route"
    /\ IF analysis.type = "object"
       THEN /\ route' = route_written(route, decide_route(intent_of(analysis), message))
            /\ pc' = decide_route(intent_of(analysis), message)
            /\ UNCHANGED raised
       ELSE /\ raised' = "AttributeError"
            /\ pc' = "raised"
            /\ UNCHANGED route
    /\ UNCHANGED <<execVars, message, session_id, reply, analysis, result, workerVars>>
    /\ UNCHANGED auxVars

guide_log(analysis_dict) ==
    RetrievalLog("routing",
                 <<"Orchestrator", "handled", "query", "directly", "(guide", "mode)">>,
                 [intent |-> analysis_dict.intent, confidence |-> analysis_dict.confidence,
                  target_agent |-> "orchestrator", reasoning |-> analysis_dict.reasoning],
                 "success", None)

\* guide_user: one completion call, then the response is built.
GuideResult(analysis_dict, env) ==
    Calling(<<"complete">>,
    IF env.fails = "llm" THEN Raised("ProviderError", <<>>, None)
    ELSE IF {"intent", "confidence", "reasoning"} \ DOMAIN analysis_dict # {}
    THEN Raised("KeyError", <<>>, None)
    ELSE
    LET chat_metrics ==
            ChatMetrics(env.llm.tokens_input + env.llm.tokens_output, env.llm.cost,
                        500, "none")
    IN  IF ~HasStatus("complete")
        THEN RaisedWithLogs("AttributeError", <<>>, Some(chat_metrics),
                            <<guide_log(analysis_dict)>>)
        ELSE Returned(ChatResponse(env.llm.content, "orchestrator",
                                   analysis_dict.confidence,
                                   <<guide_log(analysis_dict)>>, chat_metrics,
                                   direct_agent_status),
                      <<>>))

GuideUser ==
    /\ pc = "guide"
    /\ \E env \in Envs :
         LET out == GuideResult(analysis.dict, env) IN
         /\ raised' = out.exc
         /\ result' = out.resp
         /\ pc' = IF out.exc = "none" THEN "done" ELSE "raised"
    /\ UNCHANGED <<execVars, message, session_id, reply, analysis, route, workerVars>>
    /\ UNCHANGED auxVars

ChainRoutes == {"delegate_hybrid", "delegate_rag", "delegate_billing", "delegate_policy"}

\* delegate_hybrid / delegate_rag / delegate_billing / delegate_policy up to
\* the call of execute_with_fallback(fallback_chain, state).
DelegateStart ==
    /\ pc \in ChainRoutes
    /\ preferred' = fallback_chain(route)
    /\ pos' = 1
    /\ attempted' = <<>>
    /\ pc' = "exec_chain"
    /\ UNCHANGED <<ret, invoked, outcomes, excs, produced, reqVars, workerVars>>
    /\ UNCHANGED auxVars

\* One iteration of execute_with_fallback's loop over the node's workers.
TryWorker ==
    /\ pc = "exec_chain"
    /\ pos <= Len(preferred)
    /\ \E env \in Envs :
       \E rag_env \in IF preferred[pos] = "hybrid" THEN RagEnvs(env) ELSE {env} :
         LET out == try_agent(preferred[pos], route, cache_store, env, rag_env) IN
         /\ cache_store' = out.store
         /\ worker_metrics' = out.metrics
         /\ worker_logs' = out.logs
         /\ worker_calls' = out.calls
         /\ worker_got' = out.got
         /\ invoked' = Append(invoked, pos)
         /\ IF out.exc = "none"
            THEN /\ produced' = out.resp
                 /\ ret' = Some(on_success(out.resp[1], attempted, preferred[pos]))
                 /\ outcomes' = Append(outcomes, "ok")
                 /\ excs' = excs
                 /\ pc' = "add_log"
                 /\ UNCHANGED <<pos, attempted>>
            ELSE /\ attempted' = on_failure(attempted, preferred[pos], out.exc)
                 /\ pos' = next_member(pos)
                 /\ outcomes' = Append(outcomes, "raise")
                 /\ excs' = excs
                 /\ UNCHANGED <<pc, ret, produced>>
    /\ UNCHANGED <<preferred, reqVars, ran>>
    /\ UNCHANGED auxVars

\* The loop ran out of workers: execute_with_fallback returns the error
\* response.
ChainExhausted ==
    /\ pc = "exec_chain"
    /\ pos > Len(preferred)
    /\ ret' = Some(error_response(attempted))
    /\ pc' = "add_log"
    /\ UNCHANGED <<preferred, pos, attempted, invoked, outcomes, excs, produced, reqVars,
                   workerVars>>
    /\ UNCHANGED auxVars

\* The node's last lines: _add_routing_log(response, state, target) and
\* state["result"] = response.
DelegateFinish ==
    /\ pc = "add_log"
    /\ result' = Some(add_routing_log(ret[1], analysis, target_agent_of(route)))
    /\ pc' = "done"
    /\ UNCHANGED <<execVars, message, session_id, reply, analysis, route, raised, workerVars>>
    /\ UNCHANGED auxVars

\* delegate_direct: the Direct agent is run outside execute_with_fallback.
DelegateDirect ==
    /\ pc = "delegate_direct"
    /\ \E env \in Envs :
         LET out == DirectRun(cache_store, env) IN
         /\ worker_metrics' = out.metrics
         /\ worker_logs' = out.logs
         /\ worker_calls' = out.calls
         /\ worker_got' = out.got
         /\ invoked' = Append(invoked, 1)
         /\ produced' = out.resp
         /\ IF out.exc = "none"
            THEN /\ result' = Some(add_routing_log(out.resp[1], analysis, "direct"))
                 /\ outcomes' = Append(outcomes, "ok")
                 /\ excs' = excs
                 /\ pc' = "done"
                 /\ UNCHANGED raised
            ELSE /\ raised' = out.exc
                 /\ outcomes' = Append(outcomes, "raise")
                 /\ excs' = excs
                 /\ pc' = "raised"
                 /\ UNCHANGED result
    /\ UNCHANGED <<preferred, pos, attempted, ret, message, session_id, reply, analysis, route,
                   cache_store, ran>>
    /\ UNCHANGED auxVars

\* process_chat returned state["result"] or raised; the service is free for
\* the next request.
RequestOver ==
    /\ pc \in {"done", "raised"}
    /\ pc' = "idle"
    /\ UNCHANGED <<execVars, reqVars, workerVars>>
    /\ UNCHANGED auxVars

Next ==
    \/ ProcessChat
    \/ AnalyseQueryProviderFails
    \/ AnalyseQuery
    \/ DecideRoute
    \/ GuideUser
    \/ DelegateStart
    \/ TryWorker
    \/ ChainExhausted
    \/ DelegateFinish
    \/ DelegateDirect
    \/ RequestOver

\* Requests served one after the other by process_chat.
Spec == Init /\ [][Next]_vars

\* ------------------------------------ harness: the agents on their own

\* The rag_agent a test hands to HybridAgent: run() returns a response
\* with a vector-search log or raises.
RagDoubles ==
    {Raised("RuntimeError", <<>>, None)}
    \cup {Returned(ChatResponse(<<"rag", "answer">>, "technical", 85,
                                <<RetrievalLog("vector_search",
                                               <<"Retrieved", "documents">>,
                                               [chunks_retrieved |-> Len(r)],
                                               "success", chunks_of(r))>>,
                                ChatMetrics(12, 2, 3, "none"),
                                [a \in AgentIds |-> "idle"]),
                   <<>>) : r \in SearchResults}

\* Payloads that are not CAG's own: one without the message field (the
\* corrupted entry of test_cag_resilience.py) and the empty dictionary.
CorruptPayloads == {[invalid |-> "data"], [x \in {} |-> "data"]}

\* A test (or another process) calls cache.set(embedding=..., payload=...).
HarnessCacheSet ==
    /\ pc = "idle"
    /\ \E e \in Embeddings, llm \in LlmResults :
         cache_store' = cache_set(cache_store, e, cache_payload(llm))
    /\ ran' = "cache.set"
    /\ UNCHANGED <<pc, execVars, reqVars, worker_metrics, worker_logs, worker_calls, worker_got>>
    /\ UNCHANGED auxVars

\* The same with a payload that is not CAG's own, into an empty cache.
HarnessCacheCorrupt ==
    /\ pc = "idle"
    /\ cache_store = <<>>
    /\ \E p \in CorruptPayloads :
         cache_store' = cache_set(cache_store, <<1, 0>>, p)
    /\ ran' = "cache.set"
    /\ UNCHANGED <<pc, execVars, reqVars, worker_metrics, worker_logs, worker_calls, worker_got>>
    /\ UNCHANGED auxVars

\* What the harness keeps of a run.
HarnessRan(name, out) ==
    /\ ran' = name
    /\ cache_store' = out.store
    /\ worker_metrics' = out.metrics
    /\ worker_logs' = out.logs
    /\ worker_calls' = out.calls
    /\ worker_got' = out.got
    /\ raised' = out.exc
    /\ result' = out.resp
    /\ UNCHANGED <<pc, execVars, message, session_id, reply, analysis, route>>
    /\ UNCHANGED auxVars

HarnessRunHybrid ==
    /\ pc = "idle"
    /\ \E env \in Envs, rag \in RagDoubles :
         HarnessRan("hybrid", HybridRun(cache_store, env, rag))

HarnessRunCAG ==
    /\ pc = "idle"
    /\ \E env \in Envs, intent \in {"", PRICING_QUESTION, POLICY_QUESTION} :
         HarnessRan("cag", CAGRun(cache_store, env, intent))

HarnessRunRAG ==
    /\ pc = "idle"
    /\ \E env \in Envs : HarnessRan("rag", RAGRun(cache_store, env))

HarnessRunDirect ==
    /\ pc = "idle"
    /\ \E env \in Envs : HarnessRan("direct", DirectRun(cache_store, env))

WorkerNext ==
    \/ HarnessCacheSet
    \/ HarnessCacheCorrupt
    \/ HarnessRunHybrid
    \/ HarnessRunCAG
    \/ HarnessRunRAG
    \/ HarnessRunDirect

\* Each worker agent run on its own against the shared cache.
WorkerSpec == Init /\ [][WorkerNext]_vars

\* --------------------------------- harness: the cache, one call at a time

\* Sets made before the key expires.
MaxSets == 3

\* Embeddings the cache is called with; the zero vector has no direction.
CacheEmbeddings == Embeddings \cup {<<0, 0>>}

Payloads == {cache_payload(llm) : llm \in LlmResults}

\* get(embedding=..., threshold=...): the default and a stricter one.
Thresholds == {CacheThreshold, 95}

\* await cache.set(embedding=e, payload=p), all three commands.
CacheSet ==
    /\ pc = "idle"
    /\ Len(inserted) < MaxSets
    /\ \E e \in CacheEmbeddings, p \in Payloads :
         /\ cache_store' = cache_set(cache_store, e, p)
         /\ inserted' = Append(inserted, [embedding |-> e, payload |-> p])
         /\ cache_op' = [name |-> "set", embedding |-> e, payload |-> p]
    /\ key_ttl' = expire(key_ttl)
    /\ UNCHANGED <<pc, execVars, reqVars, worker_metrics, worker_logs, worker_calls, worker_got, ran, clients, hyb,
                   stream, sess>>

\* await cache.get(embedding=e, threshold=t); `after` is the operation it
\* follows.
CacheGet ==
    /\ pc = "idle"
    /\ \E e \in CacheEmbeddings, t \in Thresholds :
         /\ cache_op' = [name |-> "get", embedding |-> e, threshold |-> t,
                         before |-> cache_store,
                         after |-> IF cache_op.name \in {"set", "expire"} THEN cache_op
                                   ELSE [name |-> cache_op.name],
                         got |-> cache_get(cache_store, e, t)]
         /\ cache_store' = store_after_get(cache_store, e, t)
    /\ UNCHANGED <<pc, execVars, reqVars, worker_metrics, worker_logs, worker_calls,
                   worker_got, ran, inserted, key_ttl, clients, hyb, stream, sess>>

\* A second passes and the key lives on.
CacheTick ==
    /\ pc = "idle"
    /\ key_ttl > 1
    /\ key_ttl' = key_ttl - 1
    /\ cache_op' = [name |-> "tick"]
    /\ UNCHANGED <<pc, execVars, reqVars, workerVars, inserted, clients, hyb, stream, sess>>

\* The last second of the key "cag_cache" passes: Redis deletes the list,
\* `dropped` entries at once.
CacheExpire ==
    /\ pc = "idle"
    /\ key_ttl = 1
    /\ cache_store' = <<>>
    /\ key_ttl' = 0
    /\ inserted' = <<>>
    /\ cache_op' = [name |-> "expire", dropped |-> Len(cache_store)]
    /\ UNCHANGED <<pc, execVars, reqVars, worker_metrics, worker_logs, worker_calls, worker_got, ran, clients, hyb,
                   stream, sess>>

CacheNext == CacheSet \/ CacheGet \/ CacheTick \/ CacheExpire

\* RedisSemanticCache used by one caller at a time.
CacheSpec == Init /\ [][CacheNext]_vars

\* ------------------------------- harness: the cache, concurrent requests

\* Entries the concurrent requests write, and the embeddings they look up.
ClientEntries ==
    {[embedding |-> e, payload |-> p] : e \in {<<1, 0>>, <<0, 1>>}, p \in Payloads}

ClientQueries == {<<1, 0>>, <<3, 1>>}

\* Entries pushed and not yet counted in `inserted`.
PushesAhead == Cardinality({c \in Clients : clients[c].at = "lpush"})

\* A request enters cache.set: the entry is serialised.
ClientStartSet(c) ==
    /\ clients[c].at = "idle"
    /\ Len(inserted) + PushesAhead < MaxSets
    /\ \E entry \in ClientEntries :
         clients' = [clients EXCEPT ![c] = [at |-> "lpush", entry |-> entry]]
    /\ UNCHANGED <<pc, execVars, reqVars, workerVars, cache_op, inserted, key_ttl, hyb,
                   stream, sess>>

\* await self._client.lpush("cag_cache", cache_entry): creates the key when
\* there is none (without a time to live).
ClientLpush(c) ==
    /\ clients[c].at = "lpush"
    /\ cache_store' = lpush(cache_store, clients[c].entry)
    /\ inserted' = Append(inserted, clients[c].entry)
    /\ clients' = [clients EXCEPT ![c].at = "ltrim"]
    /\ UNCHANGED <<pc, execVars, reqVars, worker_metrics, worker_logs, worker_calls, worker_got, ran, cache_op,
                   key_ttl, hyb, stream, sess>>

\* await self._client.ltrim("cag_cache", 0, 999)
ClientLtrim(c) ==
    /\ clients[c].at = "ltrim"
    /\ cache_store' = ltrim(cache_store)
    /\ clients' = [clients EXCEPT ![c].at = "expire"]
    /\ UNCHANGED <<pc, execVars, reqVars, worker_metrics, worker_logs, worker_calls, worker_got, ran, cache_op,
                   inserted, key_ttl, hyb, stream, sess>>

\* await self._client.expire("cag_cache", self._ttl): no effect on a key that
\* does not exist; set returns.
ClientExpire(c) ==
    /\ clients[c].at = "expire"
    /\ key_ttl' = IF cache_store # <<>> THEN expire(key_ttl) ELSE key_ttl
    /\ cache_op' = [name |-> "set", embedding |-> clients[c].entry.embedding,
                    payload |-> clients[c].entry.payload]
    /\ clients' = [clients EXCEPT ![c] = IdleClient]
    /\ UNCHANGED <<pc, execVars, reqVars, workerVars, inserted, hyb, stream, sess>>

\* A request enters cache.get.
ClientStartGet(c) ==
    /\ clients[c].at = "idle"
    /\ \E e \in ClientQueries :
         clients' = [clients EXCEPT ![c] = [at |-> "lrange", embedding |-> e]]
    /\ UNCHANGED <<pc, execVars, reqVars, workerVars, cache_op, inserted, key_ttl, hyb,
                   stream, sess>>

\* items = await self._client.lrange("cag_cache", 0, -1), then the scan of
\* the items read; get returns.
ClientLrange(c) ==
    /\ clients[c].at = "lrange"
    /\ cache_op' = [name |-> "get", embedding |-> clients[c].embedding,
                    threshold |-> CacheThreshold, before |-> cache_store,
                    after |-> [name |-> cache_op.name],
                    got |-> cache_get(cache_store, clients[c].embedding, CacheThreshold)]
    /\ clients' = [clients EXCEPT ![c] = IdleClient]
    /\ UNCHANGED <<pc, execVars, reqVars, workerVars, inserted, key_ttl, hyb, stream, sess>>

\* The time to live of the key runs out while requests are under way.
KeyExpires ==
    /\ key_ttl > 0
    /\ cache_store' = <<>>
    /\ key_ttl' = 0
    /\ inserted' = <<>>
    /\ UNCHANGED <<pc, execVars, reqVars, worker_metrics, worker_logs, worker_calls, worker_got, ran, cache_op,
                   clients, hyb, stream, sess>>

ClientNext ==
    \/ \E c \in Clients : ClientStartSet(c)
    \/ \E c \in Clients : ClientLpush(c)
    \/ \E c \in Clients : ClientLtrim(c)
    \/ \E c \in Clients : ClientExpire(c)
    \/ \E c \in Clients : ClientStartGet(c)
    \/ \E c \in Clients : ClientLrange(c)
    \/ KeyExpires

\* RedisSemanticCache shared by concurrent requests, one Redis command at a
\* time.
ClientSpec == Init /\ [][ClientNext]_vars

\* ------------------------------- harness: concurrent CAG requests

\* CAGAgent.run of request c up to the cache lookup: the query is embedded
\* and cache.get awaited; a hit is answered from the payload, a miss goes
\* on to retrieval and generation.
CagLookup(c) ==
    /\ clients[c].at = "idle"
    /\ \E e \in ClientQueries :
         LET got == cache_get(cache_store, e, CacheThreshold) IN
         /\ cache_op' = [name |-> "get", embedding |-> e, threshold |-> CacheThreshold,
                         before |-> cache_store, after |-> [name |-> cache_op.name],
                         got |-> got]
         /\ clients' = [clients EXCEPT ![c] =
                           IF Truthy(got.payload) THEN IdleClient
                           ELSE [at |-> "generate", embedding |-> e]]
    /\ UNCHANGED <<pc, execVars, reqVars, workerVars, inserted, key_ttl, hyb, stream, sess>>

\* The miss path of request c: vector search and completion call, then
\* cache.set is entered with the query's embedding and the answer.
CagGenerate(c) ==
    /\ clients[c].at = "generate"
    /\ Len(inserted) + PushesAhead < MaxSets
    /\ \E llm \in LlmResults :
         clients' = [clients EXCEPT ![c] =
                        [at |-> "lpush",
                         entry |-> [embedding |-> clients[c].embedding,
                                    payload |-> cache_payload(llm)]]]
    /\ UNCHANGED <<pc, execVars, reqVars, workerVars, cache_op, inserted, key_ttl, hyb,
                   stream, sess>>

\* A command of cache.set raises (connection lost, timeout): set is left
\* there, the commands made so far stand.
ClientCommandFails(c) ==
    /\ clients[c].at \in {"ltrim", "expire"}
    /\ clients' = [clients EXCEPT ![c] = IdleClient]
    /\ UNCHANGED <<pc, execVars, reqVars, workerVars, cache_op, inserted, key_ttl, hyb,
                   stream, sess>>

CagNext ==
    \/ \E c \in Clients : CagLookup(c)
    \/ \E c \in Clients : CagGenerate(c)
    \/ \E c \in Clients : ClientLpush(c)
    \/ \E c \in Clients : ClientLtrim(c)
    \/ \E c \in Clients : ClientExpire(c)
    \/ \E c \in Clients : ClientCommandFails(c)
    \/ KeyExpires

\* Concurrent CAG requests on the shared cache, one awaited call at a time.
CagSpec == Init /\ [][CagNext]_vars

\* ------------------------- hybrid_agent.py: HybridAgent.run, step by step

\* _deduplicate_sources: the key of a chunk, (source, page).
chunk_key(chunk) ==
    <<dict_get(chunk.metadata, "source", chunk.source),
      IF "page" \in DOMAIN chunk.metadata THEN Some(chunk.metadata.page) ELSE None>>

\* _deduplicate_sources: the first chunk of each key, in the order met.
RECURSIVE dedup_from(_, _, _)
dedup_from(chunks, seen, merged) ==
    IF chunks = <<>> THEN merged
    ELSE LET key == chunk_key(Head(chunks)) IN
         IF key \notin seen
         THEN dedup_from(Tail(chunks), seen \cup {key}, Append(merged, Head(chunks)))
         ELSE dedup_from(Tail(chunks), seen, merged)

deduplicate_sources(rag_chunks, cache_chunks) ==
    dedup_from(rag_chunks \o cache_chunks, {}, <<>>)

\* list.sort(key=lambda x: x.similarity, reverse=True): stable, chunks of
\* equal similarity keep their order.
RECURSIVE sort_by_similarity(_)
sort_by_similarity(chunks) ==
    IF chunks = <<>> THEN <<>>
    ELSE LET x == chunks[Len(chunks)]
             rest == sort_by_similarity(SubSeq(chunks, 1, Len(chunks) - 1))
             before == SelectSeq(rest, LAMBDA c : c.similarity >= x.similarity)
             after == SelectSeq(rest, LAMBDA c : c.similarity < x.similarity)
         IN  before \o <<x>> \o after

\* The pseudo-chunk made of a cache hit.
cache_chunks_of(cached, similarity, content, rag_chunks) ==
    IF cached
    THEN <<[id |-> Len(rag_chunks), content |-> content, similarity |-> similarity,
            source |-> "cache", metadata |-> [source |-> "semantic_cache"]]>>
    ELSE <<>>

\* The chunks the context lists as "Document i".
documents_listed(rag_chunks, merged_chunks) == rag_chunks

\* context_parts: the cached insight if there is one, then the documents.
context_parts(cache_chunks, cache_similarity, rag_chunks, merged_chunks) ==
    LET listed == documents_listed(rag_chunks, merged_chunks) IN
    (IF cache_chunks # <<>>
     THEN <<[part |-> "Cached Insight", n |-> 0, similarity |-> cache_similarity,
             source |-> "cache", content |-> cache_chunks[1].content,
             key |-> chunk_key(cache_chunks[1])]>>
     ELSE <<>>)
    \o [i \in DOMAIN listed |->
          [part |-> "Document", n |-> i, similarity |-> listed[i].similarity,
           source |-> listed[i].source, content |-> listed[i].content,
           key |-> chunk_key(listed[i])]]

DocA2 == [page_content |-> "A2", metadata |-> [source |-> "a.md", page |-> 1]]

DocB == [page_content |-> "B", metadata |-> [source |-> "b.md", page |-> 2]]

\* What the vector search of the RAG task returns, nearest first: nothing,
\* one passage, two passages of one page, passages of two pages.
RankedResults ==
    {<<>>,
     <<[doc |-> DocA, score |-> 20]>>,
     <<[doc |-> DocA, score |-> 20], [doc |-> DocA2, score |-> 40]>>,
     <<[doc |-> DocA, score |-> 20], [doc |-> DocB, score |-> 40]>>}

\* The similarity of the entry a cache hit returns, in hundredths.
HitSimilarities == {85, 95}

\* A variant of gather_done: the await returns once either task has returned.
gather_done_either(rag, cache) == rag = "returned" \/ cache = "returned"

\* asyncio.gather(rag_task, cache_task) returns once both tasks have
\* returned.
gather_done(rag, cache) == rag = "returned" /\ cache = "returned"

\* The steps of a task that has not finished.
TaskRunning == {"search", "complete", "build", "pending"}

HybridSettled ==
    \/ hyb.at = "idle"
    \/ /\ hyb.at \in {"returned", "raised"}
       /\ hyb.rag \notin TaskRunning
       /\ hyb.cache \notin TaskRunning

\* A task raised `exc`: gather keeps the first exception set on it.
task_raised(h, exc) ==
    IF h.first_exc = "none" THEN [h EXCEPT !.first_exc = exc] ELSE h

HybridStep(h) ==
    /\ hyb' = h
    /\ UNCHANGED <<pc, execVars, reqVars, workerVars>>
    /\ UNCHANGED <<cache_op, inserted, key_ttl, clients, stream, sess>>

\* run() is entered; `double` tells a rag_agent that builds its response
\* without the AgentStatus enumeration (the doubles of the tests).
HybridStart ==
    /\ HybridSettled
    /\ \E double \in BOOLEAN :
         HybridStep([at |-> "embed", rag |-> "none", cache |-> "none",
                     rag_exc |-> "none", first_exc |-> "none", exc |-> "none",
                     calls |-> <<>>, rag_double |-> double, cached |-> FALSE,
                     cache_similarity |-> 0, rag_chunks |-> <<>>,
                     merged_chunks |-> <<>>, context |-> <<>>])

\* embeddings.embed, then the two create_task calls.
HybridEmbed ==
    /\ hyb.at = "embed"
    /\ \E ok \in BOOLEAN :
         HybridStep(IF ok
                    THEN [hyb EXCEPT !.at = "gather", !.rag = "search",
                                     !.cache = "pending",
                                     !.calls = Append(@, "embed")]
                    ELSE [hyb EXCEPT !.at = "raised", !.exc = "EmbeddingError"])

RagRaised(h, exc) ==
    task_raised([h EXCEPT !.rag = "raised", !.rag_exc = exc], exc)

\* rag_task: RAGAgent.run's vector search.
RagSearch ==
    /\ hyb.at # "idle" /\ hyb.rag = "search"
    /\ \E ok \in BOOLEAN, results \in RankedResults :
         LET h == [hyb EXCEPT !.calls = Append(@, "rag.search")] IN
         HybridStep(IF ok THEN [h EXCEPT !.rag = "complete",
                                         !.rag_chunks = chunks_of(results)]
                    ELSE RagRaised(h, "VectorStoreError"))

\* rag_task: RAGAgent.run's completion call.
RagComplete ==
    /\ hyb.at # "idle" /\ hyb.rag = "complete"
    /\ \E ok \in BOOLEAN :
         LET h == [hyb EXCEPT !.calls = Append(@, "rag.complete")] IN
         HybridStep(IF ok THEN [h EXCEPT !.rag = "build"]
                    ELSE RagRaised(h, "ProviderError"))

\* rag_task: RAGAgent.run builds its response.
RagBuild ==
    /\ hyb.at # "idle" /\ hyb.rag = "build"
    /\ HybridStep(IF hyb.rag_double \/ HasStatus("complete")
                  THEN [hyb EXCEPT !.rag = "returned"]
                  ELSE RagRaised(hyb, "AttributeError"))

\* cache_task: RedisSemanticCache.get, a hit (`cached`) or a miss.
CacheLookup ==
    /\ hyb.at # "idle" /\ hyb.cache = "pending"
    /\ \E ok \in BOOLEAN, cached \in BOOLEAN, sim \in HitSimilarities :
         LET h == [hyb EXCEPT !.calls = Append(@, "cache.get")] IN
         HybridStep(IF ok THEN [h EXCEPT !.cache = "returned", !.cached = cached,
                                         !.cache_similarity = IF cached THEN sim ELSE 0]
                    ELSE task_raised([h EXCEPT !.cache = "raised"], "RedisError"))

\* await asyncio.gather(...) raises the first exception.
GatherRaises ==
    /\ hyb.at = "gather"
    /\ hyb.first_exc # "none"
    /\ HybridStep([hyb EXCEPT !.at = "raised", !.exc = hyb.first_exc])

\* await asyncio.gather(...) returns both results; the chunks are merged
\* and ranked and the context of the completion call is built.
GatherReturns ==
    /\ hyb.at = "gather"
    /\ hyb.first_exc = "none"
    /\ gather_done(hyb.rag, hyb.cache)
    /\ LET cache_chunks == cache_chunks_of(hyb.cached, hyb.cache_similarity,
                                           <<"answer", "A">>, hyb.rag_chunks)
           merged_chunks ==
               sort_by_similarity(deduplicate_sources(hyb.rag_chunks, cache_chunks))
       IN  HybridStep([hyb EXCEPT !.at = "complete",
                                  !.merged_chunks = merged_chunks,
                                  !.context = context_parts(cache_chunks,
                                                            hyb.cache_similarity,
                                                            hyb.rag_chunks,
                                                            merged_chunks)])

\* Hybrid's own provider.complete over the merged context.
HybridComplete ==
    /\ hyb.at = "complete"
    /\ \E ok \in BOOLEAN :
         LET h == [hyb EXCEPT !.calls = Append(@, "hybrid.complete")] IN
         HybridStep(IF ok THEN [h EXCEPT !.at = "build"]
                    ELSE [h EXCEPT !.at = "raised", !.exc = "ProviderError"])

\* Hybrid builds its response.
HybridBuild ==
    /\ hyb.at = "build"
    /\ HybridStep(IF HasStatus("complete")
                  THEN [hyb EXCEPT !.at = "returned"]
                  ELSE [hyb EXCEPT !.at = "raised", !.exc = "AttributeError"])

HybridNext ==
    \/ HybridStart
    \/ HybridEmbed
    \/ RagSearch
    \/ RagComplete
    \/ RagBuild
    \/ CacheLookup
    \/ GatherRaises
    \/ GatherReturns
    \/ HybridComplete
    \/ HybridBuild

\* One HybridAgent.run at a time, followed until its tasks have finished.
HybridSpec == Init /\ [][HybridNext]_vars

\* ------------------- chat.py: initiate_stream, stream_by_id, the sessions

\* Stream sessions created (each stream_id is a fresh uuid4; the model
\* numbers them 1, 2, ...).
MaxStreams == 2

\* timedelta(minutes=5), in ticks of the model's clock.
SessionTtl == 2

\* The clock stops here.
MaxClock == 4

\* stream_sessions.get(stream_id): the stored session, if any. A deleted
\* session leaves its place empty.
session_of(sessions, stream_id) ==
    IF stream_id \in DOMAIN sessions THEN sessions[stream_id] ELSE None

\* session["expires_at"] < datetime.now()
session_expired(session, now) == session.expires_at < now

\* del stream_sessions[stream_id]
delete_session(sessions, stream_id) == [sessions EXCEPT ![stream_id] = None]

SessStep(s) ==
    /\ sess' = s
    /\ UNCHANGED <<pc, execVars, reqVars, workerVars>>
    /\ UNCHANGED <<cache_op, inserted, key_ttl, clients, hyb, stream>>

\* POST /chat/stream/initiate: a session is stored under a fresh stream_id.
InitiateStream ==
    /\ Len(sess.sessions) < MaxStreams
    /\ SessStep([sess EXCEPT
                   !.sessions = Append(@, Some([message |-> <<"hello">>,
                                                created_at |-> sess.now,
                                                expires_at |-> sess.now + SessionTtl]))])

\* Time passes.
SessionTick ==
    /\ sess.now < MaxClock
    /\ SessStep([sess EXCEPT !.now = @ + 1])

\* GET /chat/stream/{stream_id} on connection c, up to the return of the
\* StreamingResponse: 404 for an unknown and for an expired session (which
\* is deleted), else a generator not yet started. The stream_id is one that
\* initiate_stream gave out or 0, one it never gives out.
StreamById ==
    \E c \in DOMAIN sess.conns, stream_id \in 0..Len(sess.sessions) :
        /\ sess.conns[c].at \in {"none", "404", "finished", "failed", "disconnected"}
        /\ LET session == session_of(sess.sessions, stream_id) IN
           SessStep(
             IF session = None
             THEN [sess EXCEPT !.conns[c] = [at |-> "404", stream_id |-> stream_id,
                                             detail |-> "not found", asked_at |-> sess.now]]
             ELSE IF session_expired(session[1], sess.now)
             THEN [sess EXCEPT !.sessions = delete_session(@, stream_id),
                               !.conns[c] = [at |-> "404", stream_id |-> stream_id,
                                             detail |-> "expired", asked_at |-> sess.now]]
             ELSE [sess EXCEPT !.conns[c] = [at |-> "start", stream_id |-> stream_id,
                                             session |-> session[1],
                                             asked_at |-> sess.now, events |-> <<>>]])

\* What each resumption of event_generator yields, by its position; the
\* position after it.
generator_yields ==
    [routing |-> [events |-> <<"agent_status">>, to |-> "active"],
     active |-> [events |-> <<"agent_status", "agent_status">>, to |-> "logs"],
     logs |-> [events |-> <<"retrieval_log">>, to |-> "chunks"],
     chunks |-> [events |-> <<"message_chunk">>, to |-> "complete"],
     complete |-> [events |-> <<"agent_status">>, to |-> "done"],
     done |-> [events |-> <<"done">>, to |-> "cleanup"]]

\* event_generator of connection c is resumed: generate_mock_response
\* first, then the yields in their order, then the clean-up that follows
\* the yield of done.
GeneratorStep ==
    \E c \in DOMAIN sess.conns :
        LET conn == sess.conns[c] IN
        /\ conn.at \in {"start", "cleanup"} \cup DOMAIN generator_yields
        /\ SessStep(
             IF conn.at = "start"
             THEN IF HasStatus("complete")
                  THEN [sess EXCEPT !.conns[c].at = "routing"]
                  ELSE [sess EXCEPT !.conns[c].at = "failed"]
             ELSE IF conn.at = "cleanup"
             THEN [sess EXCEPT
                     !.sessions = IF session_of(@, conn.stream_id) # None
                                  THEN delete_session(@, conn.stream_id) ELSE @,
                     !.conns[c].at = "finished"]
             ELSE [sess EXCEPT
                     !.conns[c].events = @ \o generator_yields[conn.at].events,
                     !.conns[c].at = generator_yields[conn.at].to])

\* The client of connection c goes away: CancelledError is raised in the
\* generator where it stands, and re-raised.
ClientDisconnects ==
    \E c \in DOMAIN sess.conns :
        /\ sess.conns[c].at \in {"start", "cleanup"} \cup DOMAIN generator_yields
        /\ SessStep([sess EXCEPT !.conns[c].at = "disconnected"])

SessionNext ==
    \/ InitiateStream
    \/ SessionTick
    \/ StreamById
    \/ GeneratorStep
    \/ ClientDisconnects

\* The two-step streaming endpoints, served to two connections.
SessionSpec == Init /\ [][SessionNext]_vars

\* --------------- agent_service.py: process_chat_stream; chat.py: chat_stream

\* process_chat_stream: node_to_agent.
node_to_agent ==
    [guide |-> "orchestrator", delegate_hybrid |-> "technical",
     delegate_rag |-> "technical", delegate_billing |-> "billing",
     delegate_policy |-> "policy", delegate_direct |-> "orchestrator"]

\* format_event / create_sse_event.
format_event(event_type, payload) == [type |-> event_type, data |-> payload]

StreamLogs ==
    LET routing == RetrievalLog("routing", <<"Routing">>, [intent |-> "x"], "success", None)
        vector == RetrievalLog("vector_search", <<"Retrieved", "documents">>,
                               [chunks_retrieved |-> 0], "success", None)
    IN  {<<>>, <<routing>>, <<routing, vector>>}

StreamMessages == {<<>>, <<"hello">>, <<"two", "words">>}

\* The agent a worker puts into its response when run by `node`.
worker_agent(agent_name, node) ==
    CASE agent_name \in {"hybrid", "rag"} -> "technical"
      [] agent_name = "cag" -> cag_agent_id(cag_intent(node))
      [] agent_name = "direct" -> "orchestrator"

\* The agents of the responses `node` can hand back: the guide's and
\* Direct's own, or that of the chain member that answered, or that of
\* the error response when none did.
AnsweringAgents(node) ==
    IF node \in {"guide", "delegate_direct"} THEN {"orchestrator"}
    ELSE {worker_agent(fallback_chain(node)[i], node) :
             i \in DOMAIN fallback_chain(node)}
         \cup {error_response(<<>>).agent}

\* What running the graph comes to: an exception out of the analysis or out
\* of the node, or the node's output with its response.
GraphOutcomes(node) ==
    {[raises |-> at, resp |-> None] : at \in {"analyse", "node"}}
    \cup {[raises |-> "none",
           resp |-> Some(ChatResponse(m, a, 85, l, ChatMetrics(12, 2, 3, "none"),
                                      [x \in AgentIds |-> "idle"]))] :
            m \in StreamMessages, l \in StreamLogs, a \in AnsweringAgents(node)}

\* (variant: the worker is reported active without the orchestrator being
\* reported complete)
node_start_events_active_only(responding_agent) ==
    IF responding_agent # "orchestrator"
    THEN <<[type |-> "agent_status",
            data |-> [agent |-> responding_agent, status |-> "active"]]>>
    ELSE <<>>

\* The events emitted at the on_chain_start of the node: none when the
\* orchestrator answers, else orchestrator complete and worker active.
node_start_events(responding_agent) ==
    IF responding_agent # "orchestrator"
    THEN <<[type |-> "agent_status",
            data |-> [agent |-> "orchestrator", status |-> "complete"]],
           [type |-> "agent_status",
            data |-> [agent |-> responding_agent, status |-> "active"]]>>
    ELSE <<>>

Emit(s, event) == [s EXCEPT !.events = Append(@, event)]

stream_error_event ==
    format_event("stream_error",
                 [message |-> "Agent orchestration failed", code |-> "SERVER_ERROR",
                  retryable |-> FALSE])

StreamStep(s) ==
    /\ stream' = s
    /\ UNCHANGED <<pc, execVars, reqVars, workerVars>>
    /\ UNCHANGED <<cache_op, inserted, key_ttl, clients, hyb, sess>>

\* process_chat_stream is entered for a request the graph will route to
\* `node`.
StreamStart ==
    /\ stream.at \in {"idle", "closed"}
    /\ \E node \in DOMAIN node_to_agent :
       \E out \in GraphOutcomes(node) :
         StreamStep([at |-> "analyse", node |-> node, out |-> out,
                     events |-> <<>>, responding_agent |-> None,
                     words |-> <<>>, exc |-> "none"])

\* on_chain_start of analyse, then the analysis itself.
StreamAnalyse ==
    /\ stream.at = "analyse"
    /\ LET s == Emit(stream, format_event("agent_status",
                                          [agent |-> "orchestrator",
                                           status |-> "active"]))
       IN  StreamStep(IF stream.out.raises = "analyse"
                      THEN [Emit(s, stream_error_event) EXCEPT !.at = "closed"]
                      ELSE [s EXCEPT !.at = "node"])

\* on_chain_start of the delegate or guide node.
StreamNodeStart ==
    /\ stream.at = "node"
    /\ LET responding_agent == node_to_agent[stream.node]
           s == [stream EXCEPT !.responding_agent = Some(responding_agent),
                               !.at = "running"]
       IN  StreamStep([s EXCEPT !.events = @ \o node_start_events(responding_agent)])

\* The node raises (except Exception: stream_error, return), or its
\* on_chain_end gives the final state.
StreamNodeEnd ==
    /\ stream.at = "running"
    /\ StreamStep(IF stream.out.raises # "none"
                  THEN [Emit(stream, stream_error_event) EXCEPT !.at = "closed"]
                  ELSE IF stream.out.resp = None
                  THEN [stream EXCEPT !.at = "closed", !.exc = "RuntimeError"]
                  ELSE [stream EXCEPT !.at = "chunks",
                                      !.words = stream.out.resp[1].message])

\* for word in words: message_chunk.
StreamChunk ==
    /\ stream.at = "chunks"
    /\ stream.words # <<>>
    /\ StreamStep([Emit(stream, format_event("message_chunk",
                                             [content |-> Head(stream.words)]))
                   EXCEPT !.words = Tail(@)])

\* The responding agent's agent_status complete, then done.
StreamDone ==
    /\ stream.at = "chunks"
    /\ stream.words = <<>>
    /\ LET response == stream.out.resp[1]
           s == Emit(stream, format_event("agent_status",
                                          [agent |-> stream.responding_agent[1],
                                           status |-> "complete"]))
       IN  StreamStep([Emit(s, format_event("done",
                                            [message |-> response.message,
                                             logs |-> response.logs,
                                             agent |-> response.agent,
                                             confidence |-> response.confidence]))
                       EXCEPT !.at = "closed"])

StreamNext ==
    \/ StreamStart
    \/ StreamAnalyse
    \/ StreamNodeStart
    \/ StreamNodeEnd
    \/ StreamChunk
    \/ StreamDone

\* AgentService.process_chat_stream, one request after the other.
StreamSpec == Init /\ [][StreamNext]_vars

\* ------------------------------------------- claims on the executor

\* The call returned a worker's response: its last invocation succeeded.
ReturnedSuccess ==
    pc = "returned" /\ outcomes # <<>> /\ outcomes[Len(outcomes)] = "ok"

\* The call returned after every member of the chain raised.
ReturnedAllFailed ==
    pc = "returned" /\ \A i \in DOMAIN outcomes : outcomes[i] = "raise"

FallbackLogsOf(logs) ==
    {i \in DOMAIN logs :
        logs[i].type = "routing" /\ TitleContains(logs[i].title, "Fallback")}

\* C1: the strategies are invoked strictly in chain order, each at most
\* once; the first success ends the run and its response is what is
\* returned; no member after it is invoked; at most len(chain) invocations.
C1_ChainOrder ==
    /\ Len(invoked) <= Len(preferred)
    /\ \A i \in DOMAIN invoked : invoked[i] = i
    /\ \A i \in DOMAIN outcomes : outcomes[i] = "ok" => i = Len(outcomes)
    /\ pc = "exec" => \A i \in DOMAIN outcomes : outcomes[i] = "raise"
    /\ ReturnedSuccess =>
          /\ produced[1] = StubResponse(invoked[Len(invoked)], produced[1].logs)
          /\ [ret[1] EXCEPT !.logs = produced[1].logs] = produced[1]
    /\ pc = "returned" /\ ~ReturnedSuccess => Len(invoked) = Len(preferred)

C1_Witness ==
    /\ ReturnedSuccess
    /\ outcomes = <<"raise", "ok">>
    /\ Len(preferred) = 3

\* C2: after k > 0 failures the returned response carries exactly one
\* fallback log, first in logs, naming the k failed members in chain order
\* as attempted and the k-th (zero-based) member as successful, and the
\* message is that member's; with k = 0 no fallback log is added.
C2_FallbackLog ==
    ReturnedSuccess =>
        LET k == Len(outcomes) - 1 IN
        /\ ret[1].message = <<"Success", "from", ToString(k + 1)>>
        /\ IF k > 0
           THEN /\ FallbackLogsOf(ret[1].logs) = {1}
                /\ ret[1].logs[1].data.attempted_agents = SubSeq(preferred, 1, k)
                /\ ret[1].logs[1].data.successful_agent = preferred[k + 1]
                /\ Len(ret[1].logs) = Len(produced[1].logs) + 1
           ELSE /\ FallbackLogsOf(ret[1].logs) = {}
                /\ ret[1].logs = produced[1].logs

C2_Witness ==
    /\ ReturnedSuccess
    /\ outcomes = <<"raise", "raise", "ok">>
    /\ ret[1].logs[1].data.attempted_agents = <<preferred[1], preferred[2]>>

C5_OrchestratorError ==
    (ReturnedAllFailed /\ preferred # <<>>) => ret[1].agent_status["orchestrator"] = "error"

\* ------------------------------------------- claims on process_chat

\* The chain of workers a route runs.
RouteWorkers ==
    IF route = "delegate_direct" THEN <<"direct">> ELSE fallback_chain(route)

\* The node of the route ran every worker of its chain and each raised.
EveryWorkerFailed ==
    /\ pc \in {"done", "raised"}
    /\ route \in ChainRoutes \cup {"delegate_direct"}
    /\ Len(outcomes) = Len(RouteWorkers)
    /\ \A i \in DOMAIN outcomes : outcomes[i] = "raise"

\* C6: on every route that runs workers, when every worker of the route's
\* chain fails, process_chat still returns a response carrying the apology
\* and an error log of the attempted agents; the exception does not reach
\* the caller.
C6_ApologyOnExhaustion ==
    EveryWorkerFailed =>
        /\ pc = "done"
        /\ raised = "none"
        /\ result[1].message = ApologyMessage
        /\ \E i \in DOMAIN result[1].logs :
              /\ result[1].logs[i].status = "error"
              /\ result[1].logs[i].data.attempted_agents = RouteWorkers

C8_CacheHitIsFree ==
    worker_metrics # None =>
        (worker_metrics[1].cache_status = "hit" =>
            worker_metrics[1].cost = 0 /\ worker_metrics[1].tokensUsed = 0)

\* A reply that holds an intent analysis: a JSON object, alone or inside a
\* leading fenced block (with or without the json tag), white space aside.
IsWs(token) == token = Ws

ReplyHoldsAnalysis(r) ==
    LET core == SelectSeq(r, LAMBDA t : ~IsWs(t))
        IsObject(t) == t.kind = "value" /\ t.value.type = "object"
    IN  \/ Len(core) = 1 /\ IsObject(core[1])
        \/ Len(core) >= 3 /\ core[1] = Fence /\ IsObject(core[2]) /\ core[3] = Fence
        \/ Len(core) >= 4 /\ core[1] = Fence /\ core[2] = JsonTag
               /\ IsObject(core[3]) /\ core[4] = Fence

\* The classifier's completion call answered (it did not raise).
ClassifierAnswered ==
    /\ pc \notin {"idle", "analyse"}
    /\ ~(pc = "raised" /\ route = "" /\ raised = "ProviderError")

\* C9: for every reply of the classifier that cannot be parsed into an
\* intent analysis, the analysis is DOMAIN_QUESTION with confidence 0.5 and
\* the fallback reasoning, no error is raised and routing proceeds.
C9_ParseFailureDefaults ==
    ClassifierAnswered /\ ~ReplyHoldsAnalysis(reply) =>
        /\ analysis = default_analysis
        /\ ~(pc = "raised" /\ route = "")

\* The rules of the router, first match wins.
RouteRules(intent, text) ==
    <<[when |-> intent = META_QUESTION, route |-> "guide"],
      [when |-> intent = COMPLEX_QUESTION
                   \/ (intent = DOMAIN_QUESTION /\ is_complex(text)),
       route |-> "delegate_hybrid"],
      [when |-> intent = SIMPLE_CHAT \/ is_simple_chat(text), route |-> "delegate_direct"],
      [when |-> intent = PRICING_QUESTION, route |-> "delegate_billing"],
      [when |-> intent = POLICY_QUESTION, route |-> "delegate_policy"],
      [when |-> intent = DOMAIN_QUESTION, route |-> "delegate_rag"],
      [when |-> TRUE, route |-> "delegate_direct"]>>

FirstMatch(rules) ==
    rules[CHOOSE i \in DOMAIN rules :
              rules[i].when /\ \A j \in 1..(i - 1) : ~rules[j].when].route

ExpectedChain(r) ==
    CASE r = "delegate_hybrid" -> <<"hybrid", "rag", "cag", "direct">>
      [] r = "delegate_rag" -> <<"rag", "cag", "direct">>
      [] r = "delegate_billing" -> <<"cag", "direct">>
      [] r = "delegate_policy" -> <<"cag", "direct">>
      [] r = "delegate_direct" -> <<"direct">>
      [] r = "guide" -> <<>>

\* The workers run so far for the request are, in order, the first members
\* of the route's chain.
RanChainPrefix ==
    (route \in Routes /\ pc # "idle") =>
        /\ Len(outcomes) <= Len(ExpectedChain(route))
        /\ \A i \in DOMAIN invoked : invoked[i] = i
        /\ route \in ChainRoutes /\ pc # route => preferred = ExpectedChain(route)
        /\ pc = "done" /\ (\A i \in DOMAIN outcomes : outcomes[i] = "raise")
              => Len(outcomes) = Len(ExpectedChain(route))

\* C11: each route runs its fixed ordered chain of workers, and on the
\* delegate_rag route with RAG and CAG both failing the final response is
\* Direct's message, with a fallback log naming rag and cag as attempted and
\* direct as successful.
C11_RouteChains ==
    /\ RanChainPrefix
    /\ (pc = "done" /\ route = "delegate_rag" /\ Len(outcomes) >= 2
           /\ outcomes[1] = "raise" /\ outcomes[2] = "raise") =>
          /\ result[1].message # ApologyMessage
          /\ \E i \in DOMAIN result[1].logs :
                /\ TitleContains(result[1].logs[i].title, "Fallback")
                /\ result[1].logs[i].data.attempted_agents = <<"rag", "cag">>
                /\ result[1].logs[i].data.successful_agent = "direct"

\* ------------------------------------------- claims on the cache

\* The score is exactly 1.0.
IsOne(score) == score.dot > 0 /\ score.dot * score.dot = score.norm2

Reaches(i) ==
    score_at_least(cosine_similarity(cache_op.before[i].embedding, cache_op.embedding),
                   cache_op.threshold)

\* C13: get returns the first entry, in store order, whose similarity is at
\* least the threshold, with that entry's similarity; it returns (none, 0.0)
\* exactly when no entry reaches the threshold; the similarity returned is
\* 0.0 or at least the threshold.
C13_FirstMatch ==
    cache_op.name = "get" =>
        LET got == cache_op.got
            store == cache_op.before
        IN  /\ got.payload = None <=> \A i \in DOMAIN store : ~Reaches(i)
            /\ got.payload = None => got.similarity = ZeroScore
            /\ got.payload # None =>
                  \E i \in DOMAIN store :
                      /\ Reaches(i)
                      /\ \A j \in 1..(i - 1) : ~Reaches(j)
                      /\ got.payload = Some(store[i].payload)
                      /\ got.similarity =
                             cosine_similarity(store[i].embedding, cache_op.embedding)
            /\ got.similarity = ZeroScore \/ score_at_least(got.similarity, cache_op.threshold)

\* The entry returned is less similar than a later one holding another
\* payload.
C13_Witness ==
    /\ cache_op.name = "get"
    /\ Len(cache_op.before) = 2
    /\ Reaches(1)
    /\ ~IsOne(cosine_similarity(cache_op.before[1].embedding, cache_op.embedding))
    /\ IsOne(cosine_similarity(cache_op.before[2].embedding, cache_op.embedding))
    /\ cache_op.before[1].payload # cache_op.before[2].payload
    /\ cache_op.got.payload = Some(cache_op.before[1].payload)

\* C14: after n sets without expiry the store holds exactly
\* min(n, MaxItems) entries, the most recently inserted ones, newest first.
C14_NewestKept ==
    LET n == Len(inserted)
        kept == IF n < MaxItems THEN n ELSE MaxItems
    IN  /\ Len(cache_store) = kept
        /\ \A i \in 1..kept : cache_store[i] = inserted[n - i + 1]

\* One insert more than the store keeps: the first inserted entry is gone.
C14_Witness ==
    /\ Len(inserted) = MaxItems + 1
    /\ Len(cache_store) = MaxItems
    /\ \A i \in DOMAIN cache_store : cache_store[i] # inserted[1]

RECURSIVE Reverse(_)
Reverse(seq) == IF seq = <<>> THEN <<>> ELSE Append(Reverse(Tail(seq)), Head(seq))

\* C15: under every interleaving of the commands of concurrent get and set
\* calls, every entry a get observes is a complete record written by a set,
\* no pushed entry is missing while the trim had nothing to remove, and the
\* store never holds more than MaxItems entries.
C15_ConcurrentSafety ==
    /\ cache_op.name = "get" =>
          \A i \in DOMAIN cache_op.before : cache_op.before[i] \in ClientEntries
    /\ Len(inserted) <= MaxItems => cache_store = Reverse(inserted)
    /\ Len(cache_store) <= MaxItems

\* ------------------------------------------- claims on the workers

\* C16: a worker run that raises, at whatever step, leaves the cache as it
\* found it.
C16_NoWriteOnFailure ==
    [][(ran' \in AgentNames /\ raised' # "none") => cache_store' = cache_store]_vars

\* C20: a CAG run that hits the cache returns a response: cache status hit,
\* zero cost and tokens, confidence 0.90, and the cache left as it was.
C20_CacheHitReturns ==
    (/\ ran = "cag"
     /\ worker_metrics # None
     /\ worker_metrics[1].cache_status = "hit") =>
        /\ raised = "none"
        /\ result # None
        /\ result[1].metrics.cache_status = "hit"
        /\ result[1].metrics.cost = 0
        /\ result[1].metrics.tokensUsed = 0
        /\ result[1].confidence = 90

\* ------------------------------------------- claims on Hybrid's tasks

Called(h, call) == \E i \in DOMAIN h.calls : h.calls[i] = call

\* C17 (as the code has it): the RAG sub-call and the cache lookup are
\* started together; Hybrid's own completion call is issued only after both
\* have returned; and once the RAG sub-call has failed Hybrid never gets
\* past the gather and issues no completion call: it fails with the error
\* of the sub-call that failed first.
C17_GatherThenComplete ==
    hyb.at # "idle" =>
        /\ hyb.at = "gather" => hyb.rag # "none" /\ hyb.cache # "none"
        /\ Called(hyb, "hybrid.complete") =>
              hyb.rag = "returned" /\ hyb.cache = "returned"
        /\ hyb.rag = "raised" =>
              /\ hyb.at \in {"gather", "raised"}
              /\ ~Called(hyb, "hybrid.complete")
              /\ hyb.at = "raised" => hyb.exc = hyb.first_exc

\* The RAG sub-call failed after the lookup had returned, and Hybrid failed
\* with the RAG error.
C17_Witness ==
    /\ hyb.at = "raised"
    /\ hyb.rag = "raised"
    /\ hyb.cache = "returned"
    /\ hyb.exc = hyb.rag_exc
    /\ Called(hyb, "cache.get")
    /\ Called(hyb, "rag.complete")

\* C17 (as stated): whenever the RAG sub-call has failed, the error Hybrid
\* failed with is the RAG error.
C17_FailsWithRagError ==
    (hyb.at = "raised" /\ hyb.rag = "raised") => hyb.exc = hyb.rag_exc

\* ------------------------------------------- claims on the stream

DoneEvents(s) == {i \in DOMAIN s.events : s.events[i].type = "done"}

\* C18: when the stream of a request has ended, it holds exactly one done
\* event, that event is its last, and every log of the request's response
\* was emitted before it as a retrieval_log event.
C18_DoneOnceAfterLogs ==
    (stream.at = "closed") =>
        /\ DoneEvents(stream) = {Len(stream.events)}
        /\ stream.out.resp # None =>
              \A k \in DOMAIN stream.out.resp[1].logs :
                 \E i \in 1..(Len(stream.events) - 1) :
                    /\ stream.events[i].type = "retrieval_log"
                    /\ stream.events[i].data = stream.out.resp[1].logs[k]

\* ------------------------------------------- claims on the logs

\* No routing log after a vector-search or cache log, and no vector-search
\* log after a cache log.
CausalOrder(logs) ==
    \A i, j \in DOMAIN logs :
        i < j =>
            /\ ~(logs[j].type = "routing" /\ logs[i].type \in {"vector_search", "cache"})
            /\ ~(logs[j].type = "vector_search" /\ logs[i].type = "cache")

IsPrefix(s, t) == Len(s) <= Len(t) /\ SubSeq(t, 1, Len(s)) = s

CagMissCalls == <<"embed", "get", "search", "complete", "set">>

\* The calls of a CAG run are made in the order embed, get, search,
\* complete, set, each at most once, and a run that went as far as the set
\* did so after its completion call had returned.
CagCallOrder == ran = "cag" => IsPrefix(worker_calls, CagMissCalls)

\* C21: a CAG run that misses the cache makes its calls in the order embed,
\* get, search, complete, set, and, its set done, returns a response with
\* cache status miss.
C21_MissThenSetThenReturn ==
    /\ CagCallOrder
    /\ (ran = "cag" /\ worker_calls = CagMissCalls /\ raised # "RedisError") =>
          /\ raised = "none"
          /\ result # None
          /\ result[1].metrics.cache_status = "miss"

\* C24: a Direct run makes one completion call and no other call, and when
\* that call succeeds it returns a response with cache status none and one
\* log, of routing type.
C24_DirectSucceeds ==
    ran = "direct" =>
        /\ worker_calls = <<"complete">>
        /\ raised # "ProviderError" =>
              /\ raised = "none"
              /\ result # None
              /\ result[1].metrics.cache_status = "none"
              /\ Len(result[1].logs) = 1
              /\ result[1].logs[1].type = "routing"

\* C25: a worker whose calls all succeeded (it went on to build the metrics
\* of its response) returns a response whose agent_status has an entry for
\* each of the four agents: complete for the orchestrator and for the agent
\* that answered, idle for the others.
C25_AgentStatusOfAnswer ==
    (ran \in AgentNames /\ worker_metrics # None) =>
        /\ raised = "none"
        /\ result # None
        /\ DOMAIN result[1].agent_status = AgentIds
        /\ \A a \in AgentIds :
              result[1].agent_status[a] =
                 IF a \in {"orchestrator", result[1].agent} THEN "complete" ELSE "idle"

\* ------------------------------------------- claims on the expiry

\* C22: a completed set leaves the whole list TtlSeconds to live, whatever
\* it had left; a list that holds entries has between 1 and TtlSeconds
\* seconds left; when the time runs out all entries go at once, and every
\* get from then on misses until the next set.
C22_ExpiryPerStore ==
    /\ cache_op.name = "set" => key_ttl = TtlSeconds
    /\ cache_store # <<>> => key_ttl \in 1..TtlSeconds
    /\ key_ttl = 0 => cache_store = <<>>
    /\ cache_op.name = "expire" => cache_store = <<>> /\ key_ttl = 0
    /\ (cache_op.name = "get" /\ key_ttl = 0) => cache_op.got.payload = None

\* Two entries were dropped together by the expiry, and the get that
\* followed missed.
C22_Witness ==
    /\ cache_op.name = "get"
    /\ cache_op.after.name = "expire"
    /\ cache_op.after.dropped = MaxItems
    /\ cache_op.got.payload = None
    /\ cache_op.embedding # <<0, 0>>

\* ------------------------------------------- claims on what a failure shows

InSeq(x, seq) == \E i \in DOMAIN seq : seq[i] = x

\* C23: the response returned when every member failed is a function of the
\* chain alone: the fixed apology and an error log whose data are built from
\* the members' names, so that two runs over one chain which differ in the
\* exceptions raised return the same message and the same data; no exception
\* text is in the message or in the data.
C23_FailureHidesExceptions ==
    ReturnedAllFailed =>
        /\ ret[1].message = ApologyMessage
        /\ ret[1].logs[1].data =
              [attempted_agents |-> preferred, error |-> error_msg(preferred)]
        /\ \A i \in DOMAIN excs :
              /\ ~InSeq(excs[i], ret[1].message)
              /\ ~InSeq(excs[i], ret[1].logs[1].data.attempted_agents)
              /\ ~InSeq(excs[i], ret[1].logs[1].data.error)
              /\ ~InSeq(excs[i], ret[1].logs[1].title)

\* Every member of a chain of two failed, each with an exception of its own.
C23_Witness ==
    /\ ReturnedAllFailed
    /\ Len(excs) = 2
    /\ excs[1] # excs[2]
    /\ ret[1].message = ApologyMessage

\* ------------------------------------------- claims on the routing log

\* A routing log that records the routing decision.
IsRoutingDecision(log) ==
    /\ log.type = "routing"
    /\ {"intent", "confidence", "target_agent"} \subseteq DOMAIN log.data

\* C26: the response a delegate node hands back holds a routing log that
\* records the intent, its confidence and the target agent, also when
\* members of the chain failed and a later member answered.
C26_RoutingDecisionLogged ==
    pc = "logged" =>
        \E i \in DOMAIN result[1].logs : IsRoutingDecision(result[1].logs[i])

\* The same of the responses process_chat returns.
RoutingDecisionInReturned ==
    pc = "done" =>
        \E i \in DOMAIN result[1].logs : IsRoutingDecision(result[1].logs[i])

\* ------------------------------------------- claims on Hybrid's figures

\* The metrics of the response the RAG sub-call handed to Hybrid.
RagSubCallMetrics == {d.resp[1].metrics : d \in {x \in RagDoubles : x.exc = "none"}}

\* Hybrid's reported cost is the sub-call's cost plus the completion's.
HybridCostIsSum ==
    (ran = "hybrid" /\ worker_metrics # None) =>
        \E m \in RagSubCallMetrics, llm \in LlmResults :
            worker_metrics[1].cost = m.cost + llm.cost

\* C27: the metrics Hybrid reports hold the cost of the RAG sub-call plus
\* the cost of its own completion call, and the tokens of the RAG sub-call
\* plus the tokens of its own completion call.
C27_HybridSumsCostAndTokens ==
    (ran = "hybrid" /\ worker_metrics # None) =>
        \E m \in RagSubCallMetrics, llm \in LlmResults :
            /\ worker_metrics[1].cost = m.cost + llm.cost
            /\ worker_metrics[1].tokensUsed =
                  m.tokensUsed + llm.tokens_input + llm.tokens_output

\* ------------------------------------------- claims on Hybrid's context

\* The context of the completion call has been built.
ContextBuilt == hyb.at \in {"complete", "build", "returned"}

\* The parts of the context that list a document.
DocumentParts == SelectSeq(hyb.context, LAMBDA part : part.part = "Document")

\* What _deduplicate_sources and the sort leave: one chunk per (source,
\* page) key, by descending similarity.
MergedIsDedupedAndRanked ==
    ContextBuilt =>
        /\ \A i, j \in DOMAIN hyb.merged_chunks :
              i # j => chunk_key(hyb.merged_chunks[i]) # chunk_key(hyb.merged_chunks[j])
        /\ \A i, j \in DOMAIN hyb.merged_chunks :
              i < j => hyb.merged_chunks[i].similarity >= hyb.merged_chunks[j].similarity

\* The cached insight, when the lookup hit, is the first part of the
\* context and the only part that is not a document.
InsightFirst ==
    ContextBuilt =>
        /\ hyb.cached => hyb.context # <<>> /\ hyb.context[1].part = "Cached Insight"
        /\ \A i \in DOMAIN hyb.context :
              hyb.context[i].part = "Cached Insight" => i = 1 /\ hyb.cached

\* C28: the context of Hybrid's completion call is the cached insight first
\* (when the lookup hit), then the merged chunks after de-duplication on
\* the (source, page) key by descending similarity; no two chunks listed
\* share a (source, page) key.
C28_ContextIsMergedAndRanked ==
    ContextBuilt =>
        /\ hyb.cached => hyb.context # <<>> /\ hyb.context[1].part = "Cached Insight"
        /\ \A i \in DOMAIN hyb.context :
              hyb.context[i].part = "Cached Insight" => i = 1 /\ hyb.cached
        /\ \A i, j \in DOMAIN DocumentParts :
              i # j => DocumentParts[i].key # DocumentParts[j].key
        /\ \A i, j \in DOMAIN DocumentParts :
              i < j => DocumentParts[i].similarity >= DocumentParts[j].similarity
        /\ \A i \in DOMAIN DocumentParts :
              \E k \in DOMAIN hyb.merged_chunks :
                 /\ chunk_key(hyb.merged_chunks[k]) = DocumentParts[i].key
                 /\ hyb.merged_chunks[k].content = DocumentParts[i].content

\* ------------------------------------------- claims on a corrupted entry

\* CAG's lookup returned an entry whose payload has no message field.
CagGotNoMessage ==
    /\ ran = "cag"
    /\ worker_got # None
    /\ "message" \notin DOMAIN worker_got[1]

\* A payload that has fields, none of them the message, makes the run
\* raise after the lookup.
NonEmptyCorruptHitRaises ==
    (CagGotNoMessage /\ DOMAIN worker_got[1] # {}) =>
        /\ raised # "none"
        /\ worker_calls = <<"embed", "get">>

\* C29: when the cache lookup returns an entry whose payload lacks the
\* message field, CAG raises; it does not treat the entry as a miss: it
\* makes no completion call and no cache write in that run.
C29_CorruptHitRaises ==
    CagGotNoMessage =>
        /\ raised # "none"
        /\ ~InSeq("complete", worker_calls)
        /\ ~InSeq("set", worker_calls)

\* ------------------------------------------- claims on the intent's route

\* The router has just chosen the route of a request with a classified
\* intent.
RoutedOnIntent(intent) ==
    /\ route # "" /\ pc = route
    /\ "intent" \in DOMAIN analysis.dict
    /\ analysis.dict.intent = intent

\* A request classified SIMPLE_CHAT goes to the direct agent whatever its
\* text.
SimpleChatGoesDirect == RoutedOnIntent(SIMPLE_CHAT) => route = "delegate_direct"

\* C30: a request classified PRICING_QUESTION is routed to delegate_billing,
\* one classified POLICY_QUESTION to delegate_policy and one classified
\* SIMPLE_CHAT to delegate_direct, whatever the text of its message.
C30_IntentDecidesRoute ==
    /\ RoutedOnIntent(PRICING_QUESTION) => route = "delegate_billing"
    /\ RoutedOnIntent(POLICY_QUESTION) => route = "delegate_policy"
    /\ RoutedOnIntent(SIMPLE_CHAT) => route = "delegate_direct"

\* ------------------------------------------- claims on the router's frame

\* C31: decide_route changes nothing of the request's state but
\* state["route"]: messages, analysis, session_id and result are after the
\* call what they were before it, and state["route"] is the route returned.
C31_RouterWritesRouteOnly ==
    [][pc = "route" =>
          /\ message' = message
          /\ analysis' = analysis
          /\ session_id' = session_id
          /\ result' = result
          /\ pc' # "raised" => route' = pc']_vars

\* The router sent a request classified DOMAIN_QUESTION to the hybrid
\* chain.
C31_Witness ==
    /\ pc = "delegate_hybrid"
    /\ route = "delegate_hybrid"
    /\ session_id \in SessionIds
    /\ intent_of(analysis) = DOMAIN_QUESTION
    /\ analysis.type = "object"

\* ------------------------------------------- claims on what get changes

\* C32: get leaves the store as it is: it does not reorder, add or remove
\* entries and does not refresh the expiry; what the store holds, and in
\* which order, follows from the sets alone.
C32_GetChangesNothing ==
    [][cache_op'.name = "get" =>
          /\ cache_store' = cache_store
          /\ key_ttl' = key_ttl
          /\ inserted' = inserted
          /\ Len(cache_store') <= Len(inserted')
          /\ \A i \in DOMAIN cache_store' :
                cache_store'[i] = inserted'[Len(inserted') - i + 1]]_vars

\* A get hit the older of two entries one second before the expiry: the
\* entry is still the second and the time to live was not renewed.
C32_Witness ==
    /\ cache_op.name = "get"
    /\ key_ttl = 1
    /\ Len(cache_store) = MaxItems
    /\ cache_op.got.payload = Some(cache_store[MaxItems].payload)
    /\ cache_store[1].payload # cache_store[MaxItems].payload

\* ------------------------------------------- claims on the guide

\* The guide node has finished a request classified META_QUESTION whose
\* analysis holds the fields the node reads and whose completion call
\* returned.
GuideFinished ==
    /\ route = "guide"
    /\ pc \in {"done", "raised"}
    /\ intent_of(analysis) = META_QUESTION
    /\ {"confidence", "reasoning"} \subseteq DOMAIN analysis.dict
    /\ raised # "ProviderError"

\* On the guide route no worker is run and nothing is looked up or stored.
GuideRunsNoWorker ==
    (route = "guide" /\ pc # "idle") =>
        /\ invoked = <<>>
        /\ outcomes = <<>>
        /\ worker_calls = <<>>
        /\ worker_got = None

\* C33: a request classified META_QUESTION is answered by the guide node
\* without a worker, the cache or the vector store: the response's agent is
\* the orchestrator and its logs are one entry, of routing type.
C33_GuideAnswers ==
    GuideFinished =>
        /\ invoked = <<>>
        /\ worker_calls = <<>>
        /\ raised = "none"
        /\ result # None
        /\ result[1].agent = "orchestrator"
        /\ Len(result[1].logs) = 1
        /\ result[1].logs[1].type = "routing"

\* ------------------------------------------- claims on the stream sessions

\* Connection c was answered with a stream (its generator was handed out).
Streamed(c) == sess.conns[c].at \notin {"none", "404"}

\* What stream_by_id lets through and what it deletes: an unknown
\* stream_id and an expired session get 404, the expired session is
\* deleted, a stream is started only for a stored session that has not
\* expired, a stream that emitted done leaves no session behind, and a
\* client that went away before done leaves the session to its expiry.
SessionGate ==
    \A c \in DOMAIN sess.conns :
        LET conn == sess.conns[c] IN
        /\ conn.at = "404" => session_of(sess.sessions, conn.stream_id) = None
        /\ Streamed(c) =>
              /\ conn.stream_id \in DOMAIN sess.sessions
              /\ ~session_expired(conn.session, conn.asked_at)
        /\ (Streamed(c) /\ InSeq("done", conn.events)) =>
              session_of(sess.sessions, conn.stream_id) = None
        /\ (conn.at = "disconnected" /\ ~InSeq("done", conn.events)) =>
              \/ session_of(sess.sessions, conn.stream_id) = Some(conn.session)
              \/ session_expired(conn.session, sess.now)

SessionGateCase ==
    \E c, d \in DOMAIN sess.conns :
        /\ sess.conns[c].at = "404" /\ sess.conns[c].detail = "expired"
        /\ sess.conns[d].at = "disconnected"
        /\ sess.conns[d].stream_id = sess.conns[c].stream_id

\* ------------------------------------------- claims on the status events

\* The places of the stream's events of a type, and of its status events
\* for an agent.
EventsOfType(type) == {i \in DOMAIN stream.events : stream.events[i].type = type}

StatusEvents(agent, status) ==
    {i \in EventsOfType("agent_status") :
        stream.events[i].data = [agent |-> agent, status |-> status]}

\* C35: the status events of a stream are ordered: orchestrator active is
\* the first event; when a worker agent answers, orchestrator complete and
\* then the worker's active are emitted once each, before any message
\* chunk; the answering agent's complete follows the last chunk and comes
\* right before done; every agent reported active is reported complete
\* before done.
C35_StatusOrder ==
    stream.at # "idle" =>
        /\ stream.events # <<>> =>
              stream.events[1] = format_event("agent_status",
                                              [agent |-> "orchestrator", status |-> "active"])
        /\ (stream.responding_agent # None /\ stream.responding_agent[1] # "orchestrator") =>
              \E i, j \in DOMAIN stream.events :
                  /\ StatusEvents("orchestrator", "complete") = {i}
                  /\ StatusEvents(stream.responding_agent[1], "active") = {j}
                  /\ i < j
                  /\ \A k \in EventsOfType("message_chunk") : j < k
        /\ \A d \in EventsOfType("done") :
              /\ d - 1 \in StatusEvents(stream.responding_agent[1], "complete")
              /\ \A k \in EventsOfType("message_chunk") : k < d - 1
              /\ \A a \in AgentIds :
                    \A i \in StatusEvents(a, "active") :
                        \E j \in StatusEvents(a, "complete") : i < j /\ j < d

\* A worker route's stream of two chunks has ended with done.
C35_Witness ==
    /\ stream.at = "closed"
    /\ stream.exc = "none"
    /\ EventsOfType("done") # {}
    /\ stream.responding_agent = Some("billing")
    /\ Len(stream.out.resp[1].message) = 2

\* C40: the agent named in the last complete status event of a stream is
\* the agent the done payload reports, on every route, also when a later
\* member of the chain or the error response gave the answer.
C40_CompleteAgentIsDoneAgent ==
    stream.at # "idle" =>
        \A d \in EventsOfType("done") :
            /\ stream.events[d - 1].type = "agent_status"
            /\ stream.events[d - 1].data.status = "complete"
            /\ stream.events[d - 1].data.agent = stream.events[d].data.agent

\* The two agree whenever the first member of the node's chain (or the
\* guide, or Direct on its own route) gave the answer.
FirstMemberAgentIsDoneAgent ==
    (stream.at # "idle" /\ stream.out.resp # None
       /\ stream.out.resp[1].agent = node_to_agent[stream.node]) =>
        \A d \in EventsOfType("done") :
            stream.events[d - 1].data.agent = stream.events[d].data.agent

\* ------------------------------------------- claims on concurrent writers

\* C36: after any interleaving of concurrent CAG requests the store holds at
\* most one entry for each query embedding: two requests with the same
\* embedding never both miss, generate and store.
C36_OneEntryPerEmbedding ==
    \A i, j \in DOMAIN cache_store :
        i # j => cache_store[i].embedding # cache_store[j].embedding

\* C37: a store that holds entries has a time to live, in every state
\* between the commands of the requests, a set that failed between its
\* commands and a key re-created after its expiry included.
C37_NonEmptyHasExpiry == cache_store # <<>> => key_ttl > 0

\* The same of the states in which no set is under way.
NonEmptyHasExpiryAtRest ==
    (cache_store # <<>> /\ \A c \in Clients : clients[c].at = "idle") => key_ttl > 0

\* ------------------------------------------------- claims on cancellation

\* The call of execute_with_fallback under way was left by a cancellation.
ExecutorCancelled == outcomes # <<>> /\ outcomes[Len(outcomes)] = "cancel"

\* C38: a cancellation while a strategy runs is not a strategy failure: it
\* leaves execute_with_fallback with no response returned, the cancelled
\* member is the last one invoked, and the attempted list holds only the
\* members that raised before it.
C38_CancellationPropagates ==
    \A i \in DOMAIN outcomes :
        outcomes[i] = "cancel" =>
            /\ i = Len(outcomes)
            /\ pc \in {"cancelled", "idle"}
            /\ ret = None
            /\ Len(invoked) = i
            /\ Len(attempted) = i - 1
            /\ \A k \in 1..(i - 1) : attempted[k] = preferred[invoked[k]]

\* The second member of a chain is cancelled after the first one raised.
C38_Witness ==
    /\ pc = "cancelled"
    /\ ExecutorCancelled
    /\ Len(preferred) = 3
    /\ Len(invoked) = 2
    /\ attempted = <<preferred[1]>>

\* ------------------------------------------- claims on Hybrid's cache use

\* C39: Hybrid only reads the semantic cache: the store after a run of
\* Hybrid (the step that leaves ran = "hybrid"), whether it returned or
\* raised, and wherever it raised, is the store before it, entry for entry.
C39_HybridLeavesStore ==
    [][ran' = "hybrid" => cache_store' = cache_store]_vars

\* Hybrid ran on a cache that held an entry, missed it, and got as far as
\* its completion call: the answer it generated is not in the store.
C39_Witness ==
    /\ ran = "hybrid"
    /\ Len(cache_store) = 1
    /\ worker_got = None
    /\ worker_calls = <<"embed", "rag.run", "get", "complete">>
    /\ worker_metrics # None

====
